---- MODULE Spec2Model ----
(***************************************************************************)
(* The Store (internal/store/store.go), its persistence adapter            *)
(* (internal/store/persistence.go) and the handlers that read records      *)
(* through Store pointers (internal/handler).                              *)
(*                                                                         *)
(* Goroutines are the request callers (Callers) and the save goroutines    *)
(* started by `go s.persistAsync()`.  Every Store method is split at the   *)
(* points where another goroutine can run: the acquisition of s.mu, each   *)
(* separate write to a shared field, and each file system call.            *)
(***************************************************************************)
EXTENDS Integers, Sequences, FiniteSets, TLC

\* ------------------------------------------------------------------ bounds
MaxOps == 3      \* operations invoked in one behaviour
MaxFails == 1    \* injected file I/O errors in one behaviour

Callers == {1, 2}

\* the caller whose requests are followed down to the files
PersistCallers == {1}

\* ------------------------------------------------------------- data model
Emails == {"a@x.com", "A@x.com"}
Titles == {"t1", "t2"}
Statuses == {"pending", "in-progress", "completed"}

\* model.User
User(id, name, email, role) == [ID |-> id, Name |-> name, Email |-> email, Role |-> role]

\* model.Task
Task(id, title, status, uid) == [ID |-> id, Title |-> title, Status |-> status, UserID |-> uid]

\* nil pointer / absent result
Nil == [idx |-> 0, gen |-> 0]

\* ------------------------------------------------- Store: pure computations

\* the loop `maxID := 0; for ... if x.ID > maxID { maxID = x.ID }` over s[1..n]
RECURSIVE MaxIDUpTo(_, _)
MaxIDUpTo(s, n) ==
    IF n = 0 THEN 0
    ELSE LET m == MaxIDUpTo(s, n - 1)
         IN IF s[n].ID > m THEN s[n].ID ELSE m

\* faulty variant: the next identifier taken from the number of records
MaxIDIsCount(s) == Len(s)

MaxID(s) == MaxIDUpTo(s, Len(s))

\* first index i with s[i].ID = id, 0 when the loop falls through to `return nil`
RECURSIVE FindFrom(_, _, _)
FindFrom(s, id, i) ==
    IF i > Len(s) THEN 0
    ELSE IF s[i].ID = id THEN i
    ELSE FindFrom(s, id, i + 1)

\* faulty variant: a search that ends on the last record when none matches
FindByIDOrLast(s, id) == IF FindFrom(s, id, 1) = 0 THEN Len(s) ELSE FindFrom(s, id, 1)

FindByID(s, id) == FindFrom(s, id, 1)

\* Store.UserExistsByEmail: exact string comparison
ExistsByEmail(us, email) == \E i \in 1..Len(us) : us[i].Email = email

\* strconv.Atoi on the filter strings used here; a string is a sequence of
\* one-character strings, [ok, val] is (value, err == nil)
Digits == <<"0", "1", "2", "3", "4", "5", "6", "7", "8", "9">>
DigitVal(ch) == (CHOOSE d \in 1..10 : Digits[d] = ch) - 1
IsDigit(ch) == \E d \in 1..10 : Digits[d] = ch

RECURSIVE DigitsVal(_, _)
DigitsVal(str, n) ==
    IF n = 0 THEN 0 ELSE 10 * DigitsVal(str, n - 1) + DigitVal(str[n])

Atoi(str) ==
    LET signed == Len(str) > 0 /\ str[1] \in {"-", "+"}
        body == IF signed THEN Tail(str) ELSE str
    IN IF Len(body) > 0 /\ \A i \in 1..Len(body) : IsDigit(body[i])
       THEN [ok |-> TRUE,
             val |-> IF signed /\ str[1] = "-" THEN 0 - DigitsVal(body, Len(body))
                     ELSE DigitsVal(body, Len(body))]
       ELSE [ok |-> FALSE, val |-> 0]

\* faulty variant: a user filter that does not parse is ignored
TaskMatchesFailOpen(task, status, userID) ==
    LET matchStatus == status = "" \/ task.Status = status
        matchUserID == IF userID = <<>> THEN TRUE
                       ELSE IF Atoi(userID).ok THEN task.UserID = Atoi(userID).val
                       ELSE TRUE
    IN matchStatus /\ matchUserID

\* the body of the loop of Store.GetTasks for one task
TaskMatches(task, status, userID) ==
    LET matchStatus == status = "" \/ task.Status = status
        matchUserID == IF userID = <<>> THEN TRUE
                       ELSE IF Atoi(userID).ok THEN task.UserID = Atoi(userID).val
                       ELSE FALSE
    IN matchStatus /\ matchUserID

RECURSIVE FilterTasks(_, _, _, _)
FilterTasks(ts, status, userID, n) ==
    IF n = 0 THEN <<>>
    ELSE LET rest == FilterTasks(ts, status, userID, n - 1)
         IN IF TaskMatches(ts[n], status, userID) THEN Append(rest, ts[n]) ELSE rest

\* Store.GetTasks
GetTasks(ts, status, userID) == FilterTasks(ts, status, userID, Len(ts))

\* number of tasks counted by one `case` of the switch in Store.GetStats
CountStatus(ts, status) == Cardinality({i \in 1..Len(ts) : ts[i].Status = status})

\* faulty variant: the statistics of an empty Store, whatever it holds
GetStatsZero(us, ts) ==
    [users |-> [total |-> 0],
     tasks |-> [total |-> 0, pending |-> 0, inProgress |-> 0, completed |-> 0]]

\* Store.GetStats
GetStats(us, ts) ==
    [users |-> [total |-> Len(us)],
     tasks |-> [total |-> Len(ts),
                pending |-> CountStatus(ts, "pending"),
                inProgress |-> CountStatus(ts, "in-progress"),
                completed |-> CountStatus(ts, "completed")]]

\* capacity of the backing array after append() had to grow it (runtime growslice
\* for small slices: double, at least one element)
GrowCap(cap) == IF cap = 0 THEN 1 ELSE 2 * cap


\* ------------------------------------------------------- persistence: files

\* a path of the file system: whether a file is there, and what it holds
NoFile == [exists |-> FALSE, data |-> <<>>]

\* tokens of the JSON document written by json.MarshalIndent(PersistentData)
LBrace == [tok |-> "{"]
Sep == [tok |-> ","]
RBrace == [tok |-> "}"]

\* json.MarshalIndent(&PersistentData{Users: us, Tasks: ts}): one token per
\* bracket and per record, `{ users... , tasks... }`
Marshal(us, ts) == <<LBrace>> \o us \o <<Sep>> \o ts \o <<RBrace>>

IsUserTok(t) == DOMAIN t = {"ID", "Name", "Email", "Role"}
IsTaskTok(t) == DOMAIN t = {"ID", "Title", "Status", "UserID"}

\* json.Unmarshal succeeds on the content and gives back both arrays
Parses(c) ==
    /\ Len(c) >= 3
    /\ c[1] = LBrace
    /\ c[Len(c)] = RBrace
    /\ \E i \in 2..(Len(c) - 1) :
          /\ c[i] = Sep
          /\ \A j \in 2..(i - 1) : IsUserTok(c[j])
          /\ \A j \in (i + 1)..(Len(c) - 1) : IsTaskTok(c[j])

\* write(fd, data) at offset 0 of a file that holds old: bytes beyond the data stay
WriteAt0(old, data) == data \o SubSeq(old, Len(data) + 1, Len(old))

\* what a write that fails part-way has put into the file
PartialOf(data) == SubSeq(data, 1, Len(data) \div 2)

\* ------------------------------------------------------------------- state
VARIABLES
    users,      \* s.users
    tasks,      \* s.tasks: elements 1..len of the current backing array
    tasksCap,   \* cap(s.tasks)
    tasksGen,   \* which backing array s.tasks points to (number of reallocations)
    tasksOld,   \* backing arrays append() has abandoned and a caller still points into
    mu,         \* s.mu: the caller holding the write lock (0: none), the saves holding a read lock
    pc,         \* per caller: position in the operation it runs
    op,         \* per caller: the operation and its arguments
    loc,        \* per caller: local variable (maxID, the index i of the loop, the Persist call)
    ret,        \* per caller: the value the Store method returned
    enc,        \* per caller: the record as the JSON encoder has read it so far
    saves,      \* the Persist calls started so far, in order of their start
    tmpFile,    \* data/data.json.tmp
    dataFile,   \* data/data.json
    opsLeft,    \* operations that may still be invoked
    failsLeft,  \* I/O errors that may still be injected
    \* history variables (not program state)
    init0,      \* the collections and the file the Store was constructed with
    committed,  \* the collections as the latest write that took effect left them
    returned,   \* the collections as the latest write that has returned left them
    seen,       \* per caller: the committed collections a running read may legally observe
    atEffect,   \* per caller: the record a returned pointer designated when the operation took effect
    spawned,    \* per caller: goroutines started by the running operation
    mutCount,   \* writes that took effect
    userCreates, \* CreateUser calls that took effect
    healthCount, \* health requests that called Persist
    failSinceMut \* an I/O error was injected after the latest write took effect

VARIABLES
    entries,    \* c.entries of the Cache: per key, the Entry or none
    hits,       \* c.hits
    misses,     \* c.misses
    creaders,   \* c.mu: the callers holding its read lock (a write lock is held within one step)
    now,        \* what time.Now() returns
    cpc,        \* per caller: position in the Cache method it runs
    cop,        \* per caller: the Cache method and its arguments
    cloc,       \* per caller: the local variable hits of Stats
    cret,       \* per caller: what the Cache method returned
    cacheOpsLeft, \* Cache methods that may still be called
    \* history variables of the Cache (not program state)
    unswept,    \* the entries as they would be had no sweep ever run
    lastSet,    \* per key: the latest Set since the key was last invalidated
    removedBy,  \* per key: what removed its entry since the latest Set, if anything did
    observed,   \* per caller: the time its Get read, and lastSet of its key at that moment
    completed   \* the Get calls that have returned (value, true), and (nil, false)

VARIABLES
    bootFile,   \* data/data.json as Initialize finds it
    bootPc,     \* position of Initialize
    bootData,   \* what LoadData returned: (*PersistentData, error)
    bootStore,  \* the Store Initialize returned
    bootInput   \* history: how the file Initialize finds came about

VARIABLES
    hreq,       \* per caller: the request its handler is serving
    hpc,        \* per caller: position of the handler
    requestsLeft, \* requests that may still arrive
    events      \* history, per caller: what the handler has done for the request so far

VARIABLES
    requests,   \* rl.requests of the RateLimiter: per IP, the times it keeps
    rlmu,       \* rl.mu: 0 when free, else its holder
    rlcall,     \* per caller: the Allow call it is in
    granted,    \* history, per IP: the times of the Allow calls that returned true
    answer,     \* per caller: what its last Allow returned, and when
    allowsLeft  \* Allow calls that may still be made

VARIABLES
    header      \* per caller: the X-API-Key header of the request Auth has looked at

cacheVars == <<entries, hits, misses, creaders, now, cpc, cop, cloc, cret, cacheOpsLeft,
               unswept, lastSet, removedBy, observed, completed>>

bootVars == <<bootFile, bootPc, bootData, bootStore, bootInput>>

handlerVars == <<hreq, hpc, requestsLeft, events>>

limiterVars == <<requests, rlmu, rlcall, granted, answer, allowsLeft>>

authVars == <<header>>

\* the state outside the Store and its files
outerVars == <<cacheVars, bootVars, handlerVars, limiterVars, authVars>>

\* the Store, its callers and its files
innerVars == <<users, tasks, tasksCap, tasksGen, tasksOld, mu, pc, op, loc, ret, enc, saves,
               tmpFile, dataFile, opsLeft, failsLeft,
               init0, committed, returned, seen, atEffect, spawned, mutCount, userCreates,
               healthCount, failSinceMut>>

\* the state outside the Cache
nonCacheVars == <<innerVars, bootVars, handlerVars, limiterVars, authVars>>

vars == <<innerVars, outerVars>>

storeVars == <<users, tasks, tasksCap, tasksGen, tasksOld>>
fileVars == <<tmpFile, dataFile>>
histVars == <<init0, committed, returned, mutCount, userCreates, healthCount>>

NoOp == [name |-> "none"]
NoTask == Task(0, "", "", 0)

\* optional argument of UpdateTask: a nil pointer, or a pointer to a value
NoStr == [set |-> FALSE, val |-> ""]
NoInt == [set |-> FALSE, val |-> 0]
Some(v) == [set |-> TRUE, val |-> v]

\* ------------------------------------------------------------ cache: values

MaxCacheOps == 6   \* Cache methods called in one behaviour by a single caller
MaxSharedOps == 3  \* Cache methods called in one behaviour by concurrent callers
MaxTime == 2       \* the clock runs from 0 to MaxTime

\* the ttl the Cache was made with
TTL == 1

\* UsersKey()
UsersKey == "users"

\* StatsKey()
StatsKey == "stats"

\* faulty variant: a key that leaves the user filter out
TasksKeyByStatus(status, userID) == "tasks:" \o status

\* TasksKey(status, userID)
TasksKey(status, userID) == "tasks:" \o status \o ":" \o userID

\* UsersKey(), StatsKey(), TasksKey("", "")
CacheKeys == {"users", "stats", "tasks::", "tasks:a:b:"}

\* the keys the callers of the Cache alone use
CalledKeys == {"users", "stats", "tasks::"}

\* responses stored in the Cache
CacheData == {[body |-> "v1"], [body |-> "v2"]}

\* the nil interface value
NoData == [nil |-> TRUE]

\* Entry; a key that is not in the map reads as none
Entry(data, expiresAt) == [present |-> TRUE, Data |-> data, ExpiresAt |-> expiresAt]
NoEntry == [present |-> FALSE, Data |-> NoData, ExpiresAt |-> 0]

\* faulty variant: an entry counts as expired at its expiry time already
NotBefore(t, u) == t >= u

\* time.Time.After
After(t, u) == t > u

\* faulty variant: a Get that finds an expired entry counts nothing
GetCountsNoExpiry(entry, t) ==
    IF ~entry.present THEN "misses"
    ELSE IF After(t, entry.ExpiresAt) THEN "none"
    ELSE "hits"

\* Cache.Get: the counter a Get increments on the entry it finds at time t
GetCounts(entry, t) ==
    IF ~entry.present THEN "misses"
    ELSE IF After(t, entry.ExpiresAt) THEN "misses"
    ELSE "hits"

\* faulty variant: Get returns an entry without looking at its expiry
GetReturnsExpired(entry, t) ==
    IF ~entry.present THEN [Data |-> NoData, found |-> FALSE]
    ELSE [Data |-> entry.Data, found |-> TRUE]

\* Cache.Get: what a Get returns on the entry it finds at time t
GetReturns(entry, t) ==
    IF ~entry.present THEN [Data |-> NoData, found |-> FALSE]
    ELSE IF After(t, entry.ExpiresAt) THEN [Data |-> NoData, found |-> FALSE]
    ELSE [Data |-> entry.Data, found |-> TRUE]

RECURSIVE GCD(_, _)
GCD(a, b) == IF b = 0 THEN a ELSE GCD(b, a % b)

\* a float64 value as an exact fraction in lowest terms (the rounding of a
\* quotient that has no finite binary expansion is left out)
Frac(n, d) == [num |-> n \div GCD(n, d), den |-> d \div GCD(n, d)]

\* faulty variant: the quotient taken in int64 before the conversion
HitRateIntDiv(h, total) ==
    IF total > 0 THEN Frac((h \div total) * 100, 1) ELSE Frac(0, 1)

\* Cache.Stats: float64(hits) / float64(total) * 100, or the zero value
HitRate(h, total) ==
    IF total > 0 THEN Frac(h * 100, total) ELSE Frac(0, 1)

\* len(c.entries)
NumEntries(es) == Cardinality({k \in CacheKeys : es[k].present})

MaxRequests == 3   \* requests served in one behaviour

\* handler.New: no request is being served
HandlerNew ==
    /\ hreq = [c \in Callers |-> NoOp]
    /\ hpc = [c \in Callers |-> "idle"]
    /\ requestsLeft = MaxRequests
    /\ events = [c \in Callers |-> <<>>]

\* r.Header.Get of a request Auth has not seen
NoHeader == [set |-> FALSE, val |-> <<>>]

\* no request has reached Auth
AuthNew == header = [c \in Callers |-> NoHeader]

MaxAllows == 5   \* Allow calls in one behaviour
Limit == 2       \* rl.limit of the RateLimiter tried
Window == 2      \* rl.window of the RateLimiter tried, in ticks of the clock

IPs == {"ip1", "ip2"}

\* the cleanup goroutine, as a holder of rl.mu
Cleaner == Cardinality(Callers) + 1

\* no time kept for an IP: the key is not in the map
NoRequests == [exists |-> FALSE, times |-> <<>>]

\* NewRateLimiter(limit, window): an empty map
LimiterNew ==
    /\ requests = [ip \in IPs |-> NoRequests]
    /\ rlmu = 0
    /\ rlcall = [c \in Callers |-> [pc |-> "idle", ip |-> ""]]
    /\ granted = [ip \in IPs |-> <<>>]
    /\ answer = [c \in Callers |-> [ip |-> "", allowed |-> FALSE, remaining |-> 0, at |-> 0]]
    /\ allowsLeft = MaxAllows

\* cache.New(ttl): an empty map, both counters zero
CacheNew ==
    /\ entries = [k \in CacheKeys |-> NoEntry]
    /\ hits = 0
    /\ misses = 0
    /\ creaders = {}
    /\ now = 0
    /\ cpc = [c \in Callers |-> "idle"]
    /\ cop = [c \in Callers |-> NoOp]
    /\ cloc = [c \in Callers |-> 0]
    /\ cret = [c \in Callers |-> [none |-> TRUE]]
    /\ cacheOpsLeft = MaxCacheOps
    /\ unswept = [k \in CacheKeys |-> NoEntry]
    /\ lastSet = [k \in CacheKeys |-> [set |-> FALSE, at |-> 0, val |-> NoData]]
    /\ removedBy = [k \in CacheKeys |-> "none"]
    /\ observed = [c \in Callers |-> [at |-> 0, last |-> [set |-> FALSE, at |-> 0, val |-> NoData]]]
    /\ completed = [hit |-> 0, miss |-> 0]

\* ------------------------------------------------------------------ start-up

\* defaultStore: the sample data
defaultStore ==
    [users |-> <<User(1, "John Doe", "john@example.com", "developer"),
                 User(2, "Jane Smith", "jane@example.com", "designer"),
                 User(3, "Bob Johnson", "bob@example.com", "manager")>>,
     tasks |-> <<Task(1, "Implement authentication", "pending", 1),
                 Task(2, "Design user interface", "in-progress", 2),
                 Task(3, "Review code changes", "completed", 3)>>]

\* the document `{}`: json.Unmarshal accepts it and leaves both slices nil
EmptyObject == <<LBrace, RBrace>>

\* index of the separator between the two arrays of a document that parses
SepAt(c) == CHOOSE i \in 2..(Len(c) - 1) : c[i] = Sep

\* json.Unmarshal(data, &persistentData)
Unmarshal(c) ==
    IF c = EmptyObject THEN [err |-> FALSE, users |-> <<>>, tasks |-> <<>>]
    ELSE IF Parses(c)
    THEN [err |-> FALSE,
          users |-> SubSeq(c, 2, SepAt(c) - 1),
          tasks |-> SubSeq(c, SepAt(c) + 1, Len(c) - 1)]
    ELSE [err |-> TRUE, users |-> <<>>, tasks |-> <<>>]

\* the return values of LoadData when it fails: nil and an error
LoadFailed == [err |-> TRUE, users |-> <<>>, tasks |-> <<>>]

\* faulty variant: the defaults are taken as soon as one collection is empty
LoadedEitherEmpty(d) == Len(d.users) = 0 \/ Len(d.tasks) = 0

\* Initialize: len(persistentData.Users) == 0 && len(persistentData.Tasks) == 0
LoadedEmpty(d) == Len(d.users) = 0 /\ Len(d.tasks) = 0

\* the users and the tasks a data file may have been written from
BootUsers ==
    {<<>>, <<User(1, "n", "a@x.com", "r")>>,
     <<User(1, "n", "a@x.com", "r"), User(2, "n", "b@x.com", "r")>>,
     <<User(7, "n", "b@x.com", "r"), User(3, "n", "c@x.com", "r")>>}
BootTasks ==
    {<<>>, <<Task(1, "t1", "pending", 1)>>,
     <<Task(1, "t1", "pending", 1), Task(2, "t2", "completed", 2)>>,
     <<Task(5, "t1", "in-progress", 7), Task(2, "t2", "pending", 3)>>}

\* how the data file came about: never written, written in full, written and
\* cut short, written as an empty object, or there and not readable
BootInputs ==
    {[kind |-> k, users |-> us, tasks |-> ts] :
        k \in {"written", "cut", "unreadable"}, us \in BootUsers, ts \in BootTasks}
    \cup {[kind |-> k, users |-> <<>>, tasks |-> <<>>] : k \in {"absent", "object"}}

\* the file an input leaves behind
FileOf(in) ==
    CASE in.kind = "absent" -> [exists |-> FALSE, readable |-> FALSE, data |-> <<>>]
      [] in.kind = "written" -> [exists |-> TRUE, readable |-> TRUE, data |-> Marshal(in.users, in.tasks)]
      [] in.kind = "cut" -> [exists |-> TRUE, readable |-> TRUE, data |-> PartialOf(Marshal(in.users, in.tasks))]
      [] in.kind = "object" -> [exists |-> TRUE, readable |-> TRUE, data |-> EmptyObject]
      [] in.kind = "unreadable" -> [exists |-> TRUE, readable |-> FALSE, data |-> Marshal(in.users, in.tasks)]

NoStore == [users |-> <<>>, tasks |-> <<>>, none |-> TRUE]

\* Initialize is about to run on the file of some input
Booting ==
    /\ bootInput \in BootInputs
    /\ bootFile = FileOf(bootInput)
    /\ bootPc = "stat"
    /\ bootData = LoadFailed
    /\ bootStore = NoStore

\* Initialize is not looked at
Booted ==
    /\ bootInput = [kind |-> "absent", users |-> <<>>, tasks |-> <<>>]
    /\ bootFile = FileOf(bootInput)
    /\ bootPc = "off"
    /\ bootData = LoadFailed
    /\ bootStore = NoStore

\* LoadData: os.Stat(dataFilePath); a file that is not there is empty data
LoadStat ==
    /\ bootPc = "stat"
    /\ IF ~bootFile.exists
       THEN /\ bootData' = [err |-> FALSE, users |-> <<>>, tasks |-> <<>>]
            /\ bootPc' = "decide"
       ELSE /\ bootPc' = "read"
            /\ UNCHANGED bootData
    /\ UNCHANGED <<bootFile, bootStore, bootInput, innerVars, cacheVars, handlerVars, limiterVars, authVars>>

\* LoadData: os.ReadFile(dataFilePath)
LoadRead ==
    /\ bootPc = "read"
    /\ IF ~bootFile.readable
       THEN /\ bootData' = LoadFailed
            /\ bootPc' = "decide"
       ELSE /\ bootPc' = "parse"
            /\ UNCHANGED bootData
    /\ UNCHANGED <<bootFile, bootStore, bootInput, innerVars, cacheVars, handlerVars, limiterVars, authVars>>

\* LoadData: json.Unmarshal, and the return
LoadParse ==
    /\ bootPc = "parse"
    /\ bootData' = Unmarshal(bootFile.data)
    /\ bootPc' = "decide"
    /\ UNCHANGED <<bootFile, bootStore, bootInput, innerVars, cacheVars, handlerVars, limiterVars, authVars>>

\* Initialize after LoadData: the defaults on an error or on empty data, the
\* loaded data otherwise
InitializeDecide ==
    /\ bootPc = "decide"
    /\ bootStore' = IF bootData.err THEN defaultStore
                    ELSE IF LoadedEmpty(bootData) THEN defaultStore
                    ELSE [users |-> bootData.users, tasks |-> bootData.tasks]
    /\ bootPc' = "done"
    /\ UNCHANGED <<bootFile, bootData, bootInput, innerVars, cacheVars, handlerVars, limiterVars, authVars>>

\* the collections a Store is constructed with (New, NewWithData, Initialize)
\* and the data file found beside them; identifiers are positive and distinct
\* but need be neither sorted nor gapless
InitStores ==
    { [users |-> <<>>, tasks |-> <<>>, file |-> NoFile],
      [users |-> <<User(1, "n", "a@x.com", "r"), User(2, "n", "b@x.com", "r")>>,
       tasks |-> <<Task(1, "t1", "pending", 1), Task(2, "t1", "in-progress", 2)>>,
       file |-> NoFile],
      [users |-> <<User(3, "n", "b@x.com", "r"), User(1, "n", "c@x.com", "r")>>,
       tasks |-> <<Task(4, "t1", "completed", 1), Task(1, "t1", "pending", 3)>>,
       file |-> [exists |-> TRUE,
                 data |-> Marshal(<<User(3, "n", "b@x.com", "r"), User(1, "n", "c@x.com", "r")>>,
                                  <<Task(4, "t1", "completed", 1), Task(1, "t1", "pending", 3)>>)]] }

\* a task as a data file written by hand may hold it: json.Unmarshal accepts
\* any string as a status
ColonStores ==
    { [users |-> <<User(1, "n", "a@x.com", "r"), User(2, "n", "b@x.com", "r")>>,
       tasks |-> <<Task(1, "t1", "a:b", 1), Task(2, "t1", "pending", 2)>>,
       file |-> NoFile] }

\* the process started on one of the Stores `stores`
StartedOn(stores) ==
    /\ init0 \in stores
    /\ users = init0.users
    /\ tasks = init0.tasks
    /\ dataFile = init0.file
    /\ tasksCap = Len(tasks)
    /\ tasksGen = 0
    /\ tasksOld = {}
    /\ mu = [writer |-> 0, readers |-> {}]
    /\ pc = [c \in Callers |-> "idle"]
    /\ op = [c \in Callers |-> NoOp]
    /\ loc = [c \in Callers |-> 0]
    /\ ret = [c \in Callers |-> Nil]
    /\ enc = [c \in Callers |-> NoTask]
    /\ saves = <<>>
    /\ tmpFile = NoFile
    /\ opsLeft = MaxOps
    /\ failsLeft = MaxFails
    /\ committed = [users |-> users, tasks |-> tasks]
    /\ returned = [users |-> users, tasks |-> tasks]
    /\ seen = [c \in Callers |-> {}]
    /\ atEffect = [c \in Callers |-> NoTask]
    /\ spawned = [c \in Callers |-> 0]
    /\ mutCount = 0
    /\ userCreates = 0
    /\ healthCount = 0
    /\ failSinceMut = FALSE
    /\ CacheNew
    /\ HandlerNew
    /\ LimiterNew
    /\ AuthNew

Started == StartedOn(InitStores)

\* a process whose start-up is over
Init == Started /\ Booted

\* ------------------------------------------------------------- sync.RWMutex

\* faulty variant: a read that does not take the lock
CanRLockAlways == TRUE

\* s.mu.RLock() proceeds: no writer holds the lock and none is waiting in Lock()
CanRLock == mu.writer = 0 /\ \A c \in Callers : pc[c] # "lock"

\* faulty variant: writers that exclude the saves but not each other
CanLockSharedByWriters == mu.readers = {}

\* s.mu.Lock() proceeds: nobody holds the lock
CanLock == mu.writer = 0 /\ mu.readers = {}

\* ------------------------------------------------------------ the operations

WriteOps == {"CreateUser", "CreateTask", "UpdateTask"}
PointerOps == {"GetTaskByID", "UpdateTask"}

\* the calls of the Store's methods, with the arguments tried
StoreOps ==
    {[name |-> "GetUsers"], [name |-> "GetStats"]}
    \cup {[name |-> "GetUserByID", id |-> i] : i \in {1, 9}}
    \cup {[name |-> "UserExistsByEmail", email |-> e] : e \in Emails}
    \cup {[name |-> "GetTasks", status |-> f[1], userID |-> f[2]] :
             f \in {<<"", <<>>>>, <<"pending", <<"1">>>>, <<"", <<"x">>>>}}
    \cup {[name |-> "GetTaskByID", id |-> i] : i \in {1, 9}}
    \cup {[name |-> "CreateUser", uname |-> "n", email |-> e, role |-> "r"] : e \in Emails}
    \cup {[name |-> "CreateTask", title |-> "t1", status |-> "pending", userID |-> 1]}
    \cup {[name |-> "UpdateTask", id |-> 1, title |-> f[1], status |-> f[2], userID |-> f[3]] :
             f \in {<<NoStr, NoStr, NoInt>>, <<Some("t2"), NoStr, NoInt>>,
                    <<NoStr, Some("completed"), Some(2)>>,
                    <<Some("t2"), Some("completed"), Some(2)>>}}
    \cup {[name |-> "UpdateTask", id |-> 9, title |-> Some("t2"), status |-> NoStr, userID |-> NoInt]}

\* the requests tried where the saves run: one of each write, a read, a health check
PersistOps ==
    {[name |-> "GetUsers"], [name |-> "Health"],
     [name |-> "CreateUser", uname |-> "n", email |-> "a@x.com", role |-> "r"],
     [name |-> "CreateTask", title |-> "t1", status |-> "pending", userID |-> 1],
     [name |-> "UpdateTask", id |-> 1, title |-> Some("t2"), status |-> Some("completed"), userID |-> Some(2)],
     [name |-> "UpdateTask", id |-> 9, title |-> Some("t2"), status |-> NoStr, userID |-> NoInt]}

\* a request arrives: the caller enters the method
InvokeOp(c, ops) ==
    /\ pc[c] = "idle"
    /\ opsLeft > 0
    /\ \E o \in ops :
          /\ op' = [op EXCEPT ![c] = o]
          /\ pc' = [pc EXCEPT ![c] = IF o.name \in WriteOps THEN "lock" ELSE "rlock"]
    /\ opsLeft' = opsLeft - 1
    /\ seen' = [seen EXCEPT ![c] = {returned, committed}]
    /\ UNCHANGED <<storeVars, mu, loc, ret, enc, saves, fileVars, failsLeft,
                   histVars, outerVars, atEffect, spawned, failSinceMut>>

Invoke(c) == InvokeOp(c, StoreOps)

Request(c) == InvokeOp(c, PersistOps)

\* the reads that are waiting for the lock may observe the state st as well
SeenAlso(st) == [d \in Callers |-> IF pc[d] = "rlock" THEN seen[d] \cup {st} ELSE seen[d]]

\* the value a read method returned, under the method's name
Result(name, value) == [m \in {name} |-> value]

\* a read method whose result is a value: RLock, the body, RUnlock
ReadValue(c, name, value) ==
    /\ pc[c] = "rlock"
    /\ op[c].name = name
    /\ CanRLock
    /\ ret' = [ret EXCEPT ![c] = Result(name, value)]
    /\ pc' = [pc EXCEPT ![c] = "done"]
    /\ UNCHANGED <<storeVars, mu, op, loc, enc, saves, fileVars, opsLeft, failsLeft,
                   histVars, outerVars, seen, atEffect, spawned, failSinceMut>>

\* Store.GetUsers: the slice s.users itself; its elements 1..len are never written
\* again (no method assigns to a user), so the slice reads as this value for ever
GetUsersOp(c) == ReadValue(c, "GetUsers", users)

\* Store.GetUserByID: &s.users[i], or nil
GetUserByIDOp(c) ==
    ReadValue(c, "GetUserByID", [idx |-> FindByID(users, op[c].id), gen |-> 0])

\* Store.UserExistsByEmail
UserExistsByEmailOp(c) ==
    ReadValue(c, "UserExistsByEmail", ExistsByEmail(users, op[c].email))

\* Store.GetTasks: a new slice of copies
GetTasksOp(c) == ReadValue(c, "GetTasks", GetTasks(tasks, op[c].status, op[c].userID))

\* Store.GetStats
GetStatsOp(c) == ReadValue(c, "GetStats", GetStats(users, tasks))

\* Store.GetTaskByID: &s.tasks[i], a pointer into the backing array, or nil; the
\* handler then encodes what the pointer designates
GetTaskByIDOp(c) ==
    /\ pc[c] = "rlock"
    /\ op[c].name = "GetTaskByID"
    /\ CanRLock
    /\ LET i == FindByID(tasks, op[c].id)
       IN /\ ret' = [ret EXCEPT ![c] = IF i = 0 THEN Nil ELSE [idx |-> i, gen |-> tasksGen]]
          /\ atEffect' = [atEffect EXCEPT ![c] = IF i = 0 THEN NoTask ELSE tasks[i]]
          /\ pc' = [pc EXCEPT ![c] = IF i = 0 THEN "done" ELSE "encTitle"]
    /\ UNCHANGED <<storeVars, mu, op, loc, enc, saves, fileVars, opsLeft, failsLeft,
                   histVars, outerVars, seen, spawned, failSinceMut>>

\* s.mu.Lock() of CreateUser / CreateTask, then the loop that computes maxID
LockMaxID(c) ==
    /\ pc[c] = "lock"
    /\ op[c].name \in {"CreateUser", "CreateTask"}
    /\ CanLock
    /\ mu' = [mu EXCEPT !.writer = c]
    /\ loc' = [loc EXCEPT ![c] = IF op[c].name = "CreateUser" THEN MaxID(users) ELSE MaxID(tasks)]
    /\ pc' = [pc EXCEPT ![c] = "append"]
    /\ UNCHANGED <<storeVars, op, ret, enc, saves, fileVars, opsLeft, failsLeft,
                   histVars, outerVars, seen, atEffect, spawned, failSinceMut>>

\* a Persist call that has not begun
NewSave(origin) ==
    [pc |-> "start", origin |-> origin, data |-> <<>>, fd |-> "none", err |-> FALSE, tries |-> 0]

\* faulty variant: the write returns without starting a save
GoNothing(c) == saves

\* go s.persistAsync()
GoPersistAsync(c) == Append(saves, NewSave("mutation"))

\* a write has taken effect and has started its save
Committed(c, us, ts) ==
    /\ saves' = GoPersistAsync(c)
    /\ spawned' = [spawned EXCEPT ![c] = @ + (Len(saves') - Len(saves))]
    /\ committed' = [users |-> us, tasks |-> ts]
    /\ seen' = SeenAlso(committed')
    /\ mutCount' = mutCount + 1
    /\ userCreates' = IF op[c].name = "CreateUser" THEN userCreates + 1 ELSE userCreates
    /\ failSinceMut' = FALSE
    /\ pc' = [pc EXCEPT ![c] = "unlock"]
    /\ UNCHANGED <<mu, op, loc, enc, fileVars, opsLeft, failsLeft, init0, outerVars, returned, healthCount>>

\* Store.CreateUser: build newUser, append, go s.persistAsync()
CreateUser(c) ==
    /\ pc[c] = "append"
    /\ op[c].name = "CreateUser"
    /\ LET newUser == User(loc[c] + 1, op[c].uname, op[c].email, op[c].role)
       IN /\ users' = Append(users, newUser)
          /\ ret' = [ret EXCEPT ![c] = newUser]
    /\ Committed(c, users', tasks)
    /\ UNCHANGED <<tasks, tasksCap, tasksGen, tasksOld, atEffect>>

\* a caller still has to read through a pointer into backing array g
HoldsPtr(c, g) ==
    /\ op[c].name \in PointerOps
    /\ pc[c] \in {"unlock", "encTitle", "encStatus", "encUserID"}
    /\ ret[c].idx # 0
    /\ ret[c].gen = g

\* Store.CreateTask: build newTask, append (in place while the backing array has
\* room, into a new array otherwise), go s.persistAsync()
CreateTask(c) ==
    /\ pc[c] = "append"
    /\ op[c].name = "CreateTask"
    /\ LET newTask == Task(loc[c] + 1, op[c].title, op[c].status, op[c].userID)
       IN /\ tasks' = Append(tasks, newTask)
          /\ ret' = [ret EXCEPT ![c] = newTask]
    /\ IF Len(tasks) < tasksCap
       THEN UNCHANGED <<tasksCap, tasksGen, tasksOld>>
       ELSE /\ tasksCap' = GrowCap(tasksCap)
            /\ tasksGen' = tasksGen + 1
            /\ tasksOld' = IF \E d \in Callers : HoldsPtr(d, tasksGen)
                           THEN tasksOld \cup {[gen |-> tasksGen, arr |-> tasks]}
                           ELSE tasksOld
    /\ Committed(c, users, tasks')
    /\ UNCHANGED <<users, atEffect>>

\* faulty variant: an absent field is taken for its zero value and assigned too
NextFieldAll(o, after) ==
    IF after = "find" THEN "title"
    ELSE IF after = "title" THEN "status"
    ELSE IF after = "status" THEN "userID"
    ELSE "spawn"

\* where UpdateTask continues after the step `after`: the next supplied field,
\* or the go statement
NextField(o, after) ==
    IF after = "find" /\ o.title.set THEN "title"
    ELSE IF after \in {"find", "title"} /\ o.status.set THEN "status"
    ELSE IF after \in {"find", "title", "status"} /\ o.userID.set THEN "userID"
    ELSE "spawn"

\* s.mu.Lock() of UpdateTask, then the loop that looks for the task
UpdateTaskFind(c) ==
    /\ pc[c] = "lock"
    /\ op[c].name = "UpdateTask"
    /\ CanLock
    /\ mu' = [mu EXCEPT !.writer = c]
    /\ LET i == FindByID(tasks, op[c].id)
       IN /\ loc' = [loc EXCEPT ![c] = i]
          /\ pc' = [pc EXCEPT ![c] = IF i = 0 THEN "unlock" ELSE NextField(op[c], "find")]
    /\ UNCHANGED <<storeVars, op, ret, enc, saves, fileVars, opsLeft, failsLeft,
                   histVars, outerVars, seen, atEffect, spawned, failSinceMut>>

\* faulty variant: the assignment stores a record built anew, its identifier
\* left at zero
UpdateFieldFresh(c, at, ts) ==
    /\ pc[c] = at
    /\ tasks' = [ts EXCEPT ![loc[c]].ID = 0]
    /\ pc' = [pc EXCEPT ![c] = NextField(op[c], at)]
    /\ UNCHANGED <<users, tasksCap, tasksGen, tasksOld, mu, op, loc, ret, enc, saves, fileVars,
                   opsLeft, failsLeft, histVars, outerVars, seen, atEffect, spawned, failSinceMut>>

\* one assignment to a field of s.tasks[i]
UpdateField(c, at, ts) ==
    /\ pc[c] = at
    /\ tasks' = ts
    /\ pc' = [pc EXCEPT ![c] = NextField(op[c], at)]
    /\ UNCHANGED <<users, tasksCap, tasksGen, tasksOld, mu, op, loc, ret, enc, saves, fileVars,
                   opsLeft, failsLeft, histVars, outerVars, seen, atEffect, spawned, failSinceMut>>

\* s.tasks[i].Title = *title
UpdateTaskTitle(c) ==
    UpdateField(c, "title", [tasks EXCEPT ![loc[c]].Title = op[c].title.val])

\* s.tasks[i].Status = *status
UpdateTaskStatus(c) ==
    UpdateField(c, "status", [tasks EXCEPT ![loc[c]].Status = op[c].status.val])

\* s.tasks[i].UserID = *userID
UpdateTaskUserID(c) ==
    UpdateField(c, "userID", [tasks EXCEPT ![loc[c]].UserID = op[c].userID.val])

\* UpdateTask, found: go s.persistAsync(); return &s.tasks[i]
UpdateTaskSpawn(c) ==
    /\ pc[c] = "spawn"
    /\ ret' = [ret EXCEPT ![c] = [idx |-> loc[c], gen |-> tasksGen]]
    /\ atEffect' = [atEffect EXCEPT ![c] = tasks[loc[c]]]
    /\ Committed(c, users, tasks)
    /\ UNCHANGED storeVars

\* UpdateTask found its task
Found(c) == op[c].name = "UpdateTask" /\ loc[c] # 0

\* the method of caller c has changed the collections
Wrote(c) == op[c].name \in {"CreateUser", "CreateTask"} \/ Found(c)

\* faulty variant: persistAsync called without `go`: the method returns after the save
UnlockAfterSave(c) ==
    /\ pc[c] = "unlock"
    /\ \A g \in 1..Len(saves) : saves[g].pc = "done"
    /\ mu' = [mu EXCEPT !.writer = IF @ = c THEN 0 ELSE @]
    /\ returned' = IF op[c].name \in {"CreateUser", "CreateTask"} \/ loc[c] # 0
                   THEN committed ELSE returned
    /\ pc' = [pc EXCEPT ![c] = IF op[c].name = "UpdateTask" /\ loc[c] # 0 THEN "encTitle" ELSE "done"]
    /\ UNCHANGED <<storeVars, op, loc, ret, enc, saves, fileVars, opsLeft, failsLeft,
                   init0, outerVars, committed, mutCount, userCreates, healthCount, seen, atEffect,
                   spawned, failSinceMut>>

\* faulty variant: a write method that returns without releasing the lock
UnlockForgotten(c) ==
    /\ pc[c] = "unlock"
    /\ returned' = IF Wrote(c) THEN committed ELSE returned
    /\ pc' = [pc EXCEPT ![c] = IF Found(c) THEN "encTitle" ELSE "done"]
    /\ UNCHANGED <<storeVars, mu, op, loc, ret, enc, saves, fileVars, opsLeft, failsLeft,
                   init0, outerVars, committed, mutCount, userCreates, healthCount, seen, atEffect,
                   spawned, failSinceMut>>

\* the deferred s.mu.Unlock() of a write method, and its return to the caller;
\* the handler of an update then encodes what the returned pointer designates
Unlock(c) ==
    /\ pc[c] = "unlock"
    /\ mu' = [mu EXCEPT !.writer = IF @ = c THEN 0 ELSE @]
    /\ returned' = IF Wrote(c) THEN committed ELSE returned
    /\ pc' = [pc EXCEPT ![c] = IF Found(c) THEN "encTitle" ELSE "done"]
    /\ UNCHANGED <<storeVars, op, loc, ret, enc, saves, fileVars, opsLeft, failsLeft,
                   init0, outerVars, committed, mutCount, userCreates, healthCount, seen, atEffect,
                   spawned, failSinceMut>>

\* what a pointer &s.tasks[i] taken from backing array gen designates now: the
\* live element while s.tasks still uses that array, the abandoned array otherwise
Deref(p) ==
    IF p.gen = tasksGen THEN tasks[p.idx]
    ELSE (CHOOSE a \in tasksOld : a.gen = p.gen).arr[p.idx]

\* json.NewEncoder(w).Encode(task) in writeJSON, after the Store method has
\* returned and released the lock: the fields are read one after the other
EncodeTitle(c) ==
    /\ pc[c] = "encTitle"
    /\ enc' = [enc EXCEPT ![c] = [@ EXCEPT !.ID = Deref(ret[c]).ID, !.Title = Deref(ret[c]).Title]]
    /\ pc' = [pc EXCEPT ![c] = "encStatus"]
    /\ UNCHANGED <<storeVars, mu, op, loc, ret, saves, fileVars, opsLeft, failsLeft,
                   histVars, outerVars, seen, atEffect, spawned, failSinceMut>>

EncodeStatus(c) ==
    /\ pc[c] = "encStatus"
    /\ enc' = [enc EXCEPT ![c].Status = Deref(ret[c]).Status]
    /\ pc' = [pc EXCEPT ![c] = "encUserID"]
    /\ UNCHANGED <<storeVars, mu, op, loc, ret, saves, fileVars, opsLeft, failsLeft,
                   histVars, outerVars, seen, atEffect, spawned, failSinceMut>>

\* the last field is read; an abandoned array nobody points into any more is freed
EncodeUserID(c) ==
    /\ pc[c] = "encUserID"
    /\ enc' = [enc EXCEPT ![c].UserID = Deref(ret[c]).UserID]
    /\ pc' = [pc EXCEPT ![c] = "done"]
    /\ tasksOld' = {a \in tasksOld : \E d \in Callers \ {c} : HoldsPtr(d, a.gen)}
    /\ UNCHANGED <<users, tasks, tasksCap, tasksGen, mu, op, loc, ret, saves, fileVars, opsLeft,
                   failsLeft, histVars, outerVars, seen, atEffect, spawned, failSinceMut>>

\* the response is written; the caller is free for the next request
Return(c) ==
    /\ pc[c] = "done"
    /\ pc' = [pc EXCEPT ![c] = "idle"]
    /\ op' = [op EXCEPT ![c] = NoOp]
    /\ loc' = [loc EXCEPT ![c] = 0]
    /\ ret' = [ret EXCEPT ![c] = Nil]
    /\ enc' = [enc EXCEPT ![c] = NoTask]
    /\ seen' = [seen EXCEPT ![c] = {}]
    /\ atEffect' = [atEffect EXCEPT ![c] = NoTask]
    /\ spawned' = [spawned EXCEPT ![c] = 0]
    /\ UNCHANGED <<storeVars, mu, saves, fileVars, opsLeft, failsLeft, histVars, outerVars, failSinceMut>>

\* Handler.handleHealth: h.store.GetUsers(), then h.store.Persist() called in
\* the request's own goroutine
HealthGetUsers(c) ==
    /\ pc[c] = "rlock"
    /\ op[c].name = "Health"
    /\ CanRLock
    /\ saves' = Append(saves, NewSave("health"))
    /\ loc' = [loc EXCEPT ![c] = Len(saves) + 1]
    /\ healthCount' = healthCount + 1
    /\ pc' = [pc EXCEPT ![c] = "persist"]
    /\ UNCHANGED <<storeVars, mu, op, ret, enc, fileVars, opsLeft, failsLeft,
                   init0, outerVars, committed, returned, mutCount, userCreates, seen, atEffect, spawned,
                   failSinceMut>>

\* Handler.handleHealth: Persist has returned; checks["persistence"] is set
HealthDone(c) ==
    /\ pc[c] = "persist"
    /\ saves[loc[c]].pc = "done"
    /\ ret' = [ret EXCEPT ![c] = [persistence |-> IF saves[loc[c]].err THEN "warning" ELSE "ok"]]
    /\ pc' = [pc EXCEPT ![c] = "done"]
    /\ UNCHANGED <<storeVars, mu, op, loc, enc, saves, fileVars, opsLeft, failsLeft,
                   histVars, outerVars, seen, atEffect, spawned, failSinceMut>>

\* ------------------------------------------------- Persist and SaveData

Saves == 1..Len(saves)

\* whether the next file system call fails with an I/O error
Outcomes == IF failsLeft > 0 THEN {"ok", "error"} ELSE {"ok"}

\* faulty variant: Persist snapshots the collections without taking the read lock
PersistBeginUnlocked(g) ==
    /\ saves[g].pc = "start"
    /\ saves' = [saves EXCEPT ![g].pc = "open", ![g].data = Marshal(users, tasks),
                              ![g].tries = @ + 1]
    /\ UNCHANGED <<storeVars, mu, pc, op, loc, ret, enc, fileVars, opsLeft, failsLeft,
                   histVars, outerVars, seen, atEffect, spawned, failSinceMut>>

\* Store.Persist: s.mu.RLock(); data := &PersistentData{s.users, s.tasks}; the
\* read lock stays held until SaveData has returned (defer s.mu.RUnlock())
PersistBegin(g) ==
    /\ saves[g].pc = "start"
    /\ CanRLock
    /\ mu' = [mu EXCEPT !.readers = @ \cup {g}]
    /\ saves' = [saves EXCEPT ![g].pc = "open", ![g].data = Marshal(users, tasks),
                              ![g].tries = @ + 1]
    /\ UNCHANGED <<storeVars, pc, op, loc, ret, enc, fileVars, opsLeft, failsLeft,
                   histVars, outerVars, seen, atEffect, spawned, failSinceMut>>

\* SaveData: os.MkdirAll, json.MarshalIndent, and the open(O_CREATE|O_TRUNC) of
\* os.WriteFile(tempFile): the file at the path is emptied, or created empty
SaveOpen(g) ==
    /\ saves[g].pc = "open"
    /\ \E out \in Outcomes :
          IF out = "error"
          THEN /\ saves' = [saves EXCEPT ![g].pc = "unlock", ![g].err = TRUE]
               /\ failsLeft' = failsLeft - 1
               /\ failSinceMut' = TRUE
               /\ UNCHANGED tmpFile
          ELSE /\ saves' = [saves EXCEPT ![g].pc = "write", ![g].fd = "tmp"]
               /\ tmpFile' = [exists |-> TRUE, data |-> <<>>]
               /\ UNCHANGED <<failsLeft, failSinceMut>>
    /\ UNCHANGED <<storeVars, mu, pc, op, loc, ret, enc, dataFile, opsLeft,
                   histVars, outerVars, seen, atEffect, spawned>>

\* SaveData: the write and the close of os.WriteFile. The descriptor designates
\* the file that was opened, wherever a rename has moved it since ("data"), also
\* when it has no name left ("orphan")
SaveWrite(g) ==
    /\ saves[g].pc = "write"
    /\ \E out \in Outcomes :
          LET written == IF out = "error" THEN PartialOf(saves[g].data) ELSE saves[g].data
          IN /\ tmpFile' = IF saves[g].fd = "tmp"
                           THEN [tmpFile EXCEPT !.data = WriteAt0(@, written)] ELSE tmpFile
             /\ dataFile' = IF saves[g].fd = "data"
                            THEN [dataFile EXCEPT !.data = WriteAt0(@, written)] ELSE dataFile
             /\ saves' = [saves EXCEPT ![g].pc = IF out = "error" THEN "unlock" ELSE "rename",
                                       ![g].fd = "none",
                                       ![g].err = (out = "error")]
             /\ failsLeft' = IF out = "error" THEN failsLeft - 1 ELSE failsLeft
             /\ failSinceMut' = IF out = "error" THEN TRUE ELSE failSinceMut
    /\ UNCHANGED <<storeVars, mu, pc, op, loc, ret, enc, opsLeft,
                   histVars, outerVars, seen, atEffect, spawned>>

\* the saves after save g has left SaveData and the temporary file has moved
\* to `to`: the descriptors of the others follow their file
Moved(g, to) ==
    [h \in Saves |->
        IF h = g THEN [saves[g] EXCEPT !.pc = "unlock"]
        ELSE IF saves[h].fd = "tmp" THEN [saves[h] EXCEPT !.fd = to]
        ELSE IF saves[h].fd = "data" /\ to = "data" THEN [saves[h] EXCEPT !.fd = "orphan"]
        ELSE saves[h]]

\* SaveData: os.Rename(tempFile, dataFilePath); on an error os.Remove(tempFile)
SaveRename(g) ==
    /\ saves[g].pc = "rename"
    /\ \E out \in Outcomes :
          IF out = "error"
          THEN /\ saves' = [Moved(g, "orphan") EXCEPT ![g].err = TRUE]
               /\ tmpFile' = NoFile
               /\ failsLeft' = failsLeft - 1
               /\ failSinceMut' = TRUE
               /\ UNCHANGED dataFile
          ELSE IF tmpFile.exists
          THEN /\ saves' = Moved(g, "data")
               /\ dataFile' = tmpFile
               /\ tmpFile' = NoFile
               /\ UNCHANGED <<failsLeft, failSinceMut>>
          ELSE /\ saves' = [saves EXCEPT ![g].pc = "unlock", ![g].err = TRUE]
               /\ UNCHANGED <<fileVars, failsLeft, failSinceMut>>
    /\ UNCHANGED <<storeVars, mu, pc, op, loc, ret, enc, opsLeft,
                   histVars, outerVars, seen, atEffect, spawned>>

\* faulty variant: a failed save undoes the latest CreateUser
PersistEndRollback(g) ==
    /\ saves[g].pc = "unlock"
    /\ mu' = [mu EXCEPT !.readers = @ \ {g}]
    /\ saves' = [saves EXCEPT ![g].pc = "done", ![g].data = <<>>]
    /\ users' = IF saves[g].err /\ users # <<>> THEN SubSeq(users, 1, Len(users) - 1) ELSE users
    /\ UNCHANGED <<tasks, tasksCap, tasksGen, tasksOld, pc, op, loc, ret, enc, fileVars, opsLeft,
                   failsLeft, histVars, outerVars, seen, atEffect, spawned, failSinceMut>>

\* faulty variant: a failed save starts over
PersistEndRetry(g) ==
    /\ saves[g].pc = "unlock"
    /\ mu' = [mu EXCEPT !.readers = @ \ {g}]
    /\ saves' = [saves EXCEPT ![g].pc = IF saves[g].err THEN "start" ELSE "done",
                              ![g].err = FALSE, ![g].data = <<>>]
    /\ UNCHANGED <<storeVars, pc, op, loc, ret, enc, fileVars, opsLeft, failsLeft,
                   histVars, outerVars, seen, atEffect, spawned, failSinceMut>>

\* Store.Persist returns: the deferred s.mu.RUnlock(); persistAsync logs an
\* error and ends
PersistEnd(g) ==
    /\ saves[g].pc = "unlock"
    /\ mu' = [mu EXCEPT !.readers = @ \ {g}]
    /\ saves' = [saves EXCEPT ![g].pc = "done", ![g].data = <<>>]
    /\ UNCHANGED <<storeVars, pc, op, loc, ret, enc, fileVars, opsLeft, failsLeft,
                   histVars, outerVars, seen, atEffect, spawned, failSinceMut>>

\* ----------------------------------------------------------- cache: methods

\* the calls of Cache methods a caller may make
CacheOps ==
    {[name |-> "Get", key |-> k] : k \in CalledKeys}
    \cup {[name |-> "Set", key |-> k, data |-> d] : k \in CalledKeys, d \in CacheData}
    \cup {[name |-> "Invalidate", keys |-> ks] : ks \in SUBSET CalledKeys}
    \cup {[name |-> "InvalidateAll"], [name |-> "Stats"]}

\* a caller starts the Cache method o
CacheCall(c, o) ==
    /\ cpc[c] = "idle"
    /\ cop' = [cop EXCEPT ![c] = o]
    /\ cpc' = [cpc EXCEPT ![c] = IF o.name \in {"Get", "Stats"} THEN "rlock" ELSE "lock"]
    /\ UNCHANGED <<entries, hits, misses, creaders, now, cloc, cret,
                   unswept, lastSet, removedBy, observed, completed>>

\* a caller calls some method of the Cache, while fewer than n calls were made
CacheInvokeUpTo(c, n) ==
    /\ MaxCacheOps - cacheOpsLeft < n
    /\ cacheOpsLeft' = cacheOpsLeft - 1
    /\ \E o \in CacheOps : CacheCall(c, o)
    /\ UNCHANGED nonCacheVars

CacheInvoke(c) == CacheInvokeUpTo(c, MaxCacheOps)

SharedCacheInvoke(c) == CacheInvokeUpTo(c, MaxSharedOps)

\* c.mu.RLock() of Get and Stats: no writer is inside (a writer is inside for
\* the length of one step only)
CacheRLock(c) ==
    /\ cpc[c] = "rlock"
    /\ creaders' = creaders \cup {c}
    /\ cpc' = [cpc EXCEPT ![c] = IF cop[c].name = "Get" THEN "get" ELSE "loadHits"]
    /\ UNCHANGED <<entries, hits, misses, now, cop, cloc, cret, cacheOpsLeft,
                   unswept, lastSet, removedBy, observed, completed, nonCacheVars>>

\* faulty variant: a Get that finds an expired entry deletes it
GetBodyEvicting(c) ==
    /\ cpc[c] = "get"
    /\ LET entry == entries[cop[c].key]
           counts == GetCounts(entry, now)
       IN /\ cret' = [cret EXCEPT ![c] = GetReturns(entry, now)]
          /\ hits' = IF counts = "hits" THEN hits + 1 ELSE hits
          /\ misses' = IF counts = "misses" THEN misses + 1 ELSE misses
          /\ entries' = IF entry.present /\ After(now, entry.ExpiresAt)
                        THEN [entries EXCEPT ![cop[c].key] = NoEntry] ELSE entries
    /\ observed' = [observed EXCEPT ![c] = [at |-> now, last |-> lastSet[cop[c].key]]]
    /\ cpc' = [cpc EXCEPT ![c] = "runlock"]
    /\ UNCHANGED <<creaders, now, cop, cloc, cacheOpsLeft,
                   unswept, lastSet, removedBy, completed, nonCacheVars>>

\* Cache.Get under the read lock: the map lookup, time.Now(), one atomic Add
GetBody(c) ==
    /\ cpc[c] = "get"
    /\ LET entry == entries[cop[c].key]
           counts == GetCounts(entry, now)
       IN /\ cret' = [cret EXCEPT ![c] = GetReturns(entry, now)]
          /\ hits' = IF counts = "hits" THEN hits + 1 ELSE hits
          /\ misses' = IF counts = "misses" THEN misses + 1 ELSE misses
    /\ observed' = [observed EXCEPT ![c] = [at |-> now, last |-> lastSet[cop[c].key]]]
    /\ cpc' = [cpc EXCEPT ![c] = "runlock"]
    /\ UNCHANGED <<entries, creaders, now, cop, cloc, cacheOpsLeft,
                   unswept, lastSet, removedBy, completed, nonCacheVars>>

\* Cache.Stats: hits := c.hits.Load()
StatsLoadHits(c) ==
    /\ cpc[c] = "loadHits"
    /\ cloc' = [cloc EXCEPT ![c] = hits]
    /\ cpc' = [cpc EXCEPT ![c] = "loadMisses"]
    /\ UNCHANGED <<entries, hits, misses, creaders, now, cop, cret, cacheOpsLeft,
                   unswept, lastSet, removedBy, observed, completed, nonCacheVars>>

\* Cache.Stats: misses := c.misses.Load(), then the map it returns
StatsLoadMisses(c) ==
    /\ cpc[c] = "loadMisses"
    /\ cret' = [cret EXCEPT ![c] =
                   [hits |-> cloc[c],
                    misses |-> misses,
                    total |-> cloc[c] + misses,
                    hitRate |-> HitRate(cloc[c], cloc[c] + misses),
                    entries |-> NumEntries(entries),
                    ttl |-> TTL]]
    /\ cpc' = [cpc EXCEPT ![c] = "runlock"]
    /\ UNCHANGED <<entries, hits, misses, creaders, now, cop, cloc, cacheOpsLeft,
                   unswept, lastSet, removedBy, observed, completed, nonCacheVars>>

\* the deferred c.mu.RUnlock() of Get and Stats, and the return
CacheRUnlock(c) ==
    /\ cpc[c] = "runlock"
    /\ creaders' = creaders \ {c}
    /\ completed' = IF cop[c].name # "Get" THEN completed
                    ELSE IF cret[c].found THEN [completed EXCEPT !.hit = @ + 1]
                    ELSE [completed EXCEPT !.miss = @ + 1]
    /\ cpc' = [cpc EXCEPT ![c] = "done"]
    /\ UNCHANGED <<entries, hits, misses, now, cop, cloc, cret, cacheOpsLeft,
                   unswept, lastSet, removedBy, observed, nonCacheVars>>

\* c.mu.Lock() is granted: nobody holds the read lock
CanCacheLock == creaders = {}

\* faulty variant: a Set that leaves an entry that has not expired alone
SetUnlessFresh(es, key, data, t) ==
    IF es[key].present /\ ~After(t, es[key].ExpiresAt) THEN es
    ELSE [es EXCEPT ![key] = Entry(data, t + TTL)]

\* the map after Set(key, data) at time t
SetIn(es, key, data, t) == [es EXCEPT ![key] = Entry(data, t + TTL)]

\* faulty variant: an Invalidate that empties the map
ClearIn(es, keys) == [k \in CacheKeys |-> NoEntry]

\* the map after Invalidate(keys...)
DeleteIn(es, keys) == [k \in CacheKeys |-> IF k \in keys THEN NoEntry ELSE es[k]]

\* Cache.Set: Lock, c.entries[key] = Entry{data, time.Now().Add(c.ttl)}, Unlock
CacheSet(c) ==
    /\ cpc[c] = "lock"
    /\ cop[c].name = "Set"
    /\ CanCacheLock
    /\ entries' = SetIn(entries, cop[c].key, cop[c].data, now)
    /\ unswept' = SetIn(unswept, cop[c].key, cop[c].data, now)
    /\ lastSet' = [lastSet EXCEPT ![cop[c].key] = [set |-> TRUE, at |-> now, val |-> cop[c].data]]
    /\ removedBy' = [removedBy EXCEPT ![cop[c].key] = "none"]
    /\ observed' = [observed EXCEPT ![c] = [at |-> now, last |-> lastSet[cop[c].key]]]
    /\ cpc' = [cpc EXCEPT ![c] = "done"]
    /\ UNCHANGED <<hits, misses, creaders, now, cop, cloc, cret, cacheOpsLeft,
                   completed, nonCacheVars>>

\* Cache.Invalidate: Lock, delete(c.entries, key) for each key, Unlock
CacheInvalidate(c) ==
    /\ cpc[c] = "lock"
    /\ cop[c].name = "Invalidate"
    /\ CanCacheLock
    /\ entries' = DeleteIn(entries, cop[c].keys)
    /\ unswept' = DeleteIn(unswept, cop[c].keys)
    /\ lastSet' = [k \in CacheKeys |->
                      IF k \in cop[c].keys THEN [set |-> FALSE, at |-> 0, val |-> NoData]
                      ELSE lastSet[k]]
    /\ removedBy' = [k \in CacheKeys |->
                        IF k \in cop[c].keys /\ entries[k].present THEN "Invalidate"
                        ELSE removedBy[k]]
    /\ cpc' = [cpc EXCEPT ![c] = "done"]
    /\ UNCHANGED <<hits, misses, creaders, now, cop, cloc, cret, cacheOpsLeft,
                   observed, completed, nonCacheVars>>

\* Cache.InvalidateAll: Lock, c.entries = make(map[string]Entry), Unlock
CacheInvalidateAll(c) ==
    /\ cpc[c] = "lock"
    /\ cop[c].name = "InvalidateAll"
    /\ CanCacheLock
    /\ entries' = [k \in CacheKeys |-> NoEntry]
    /\ unswept' = [k \in CacheKeys |-> NoEntry]
    /\ lastSet' = [k \in CacheKeys |-> [set |-> FALSE, at |-> 0, val |-> NoData]]
    /\ removedBy' = [k \in CacheKeys |->
                        IF entries[k].present THEN "InvalidateAll" ELSE removedBy[k]]
    /\ cpc' = [cpc EXCEPT ![c] = "done"]
    /\ UNCHANGED <<hits, misses, creaders, now, cop, cloc, cret, cacheOpsLeft,
                   observed, completed, nonCacheVars>>

\* the caller has the result and is free for its next call
CacheReturn(c) ==
    /\ cpc[c] = "done"
    /\ cpc' = [cpc EXCEPT ![c] = "idle"]
    /\ cop' = [cop EXCEPT ![c] = NoOp]
    /\ cloc' = [cloc EXCEPT ![c] = 0]
    /\ cret' = [cret EXCEPT ![c] = [none |-> TRUE]]
    /\ observed' = [observed EXCEPT ![c] = [at |-> 0, last |-> [set |-> FALSE, at |-> 0, val |-> NoData]]]
    /\ UNCHANGED <<entries, hits, misses, creaders, now, cacheOpsLeft,
                   unswept, lastSet, removedBy, completed, nonCacheVars>>

\* faulty variant: the sweep removes an entry at its expiry time already
ExpiredOrDue(entry, t) == entry.present /\ NotBefore(t, entry.ExpiresAt)

\* cleanupExpired: now.After(entry.ExpiresAt)
Expired(entry, t) == entry.present /\ After(t, entry.ExpiresAt)

\* cleanupExpired, one tick of its ticker: Lock, now := time.Now(), delete the
\* expired entries, Unlock
Sweep ==
    /\ CanCacheLock
    /\ entries' = [k \in CacheKeys |-> IF Expired(entries[k], now) THEN NoEntry ELSE entries[k]]
    /\ removedBy' = [k \in CacheKeys |->
                        IF Expired(entries[k], now) THEN "Sweep" ELSE removedBy[k]]
    /\ UNCHANGED <<hits, misses, creaders, now, cpc, cop, cloc, cret, cacheOpsLeft,
                   unswept, lastSet, observed, completed, nonCacheVars>>

\* the clock advances
Tick ==
    /\ now < MaxTime
    /\ now' = now + 1
    /\ UNCHANGED <<entries, hits, misses, creaders, cpc, cop, cloc, cret, cacheOpsLeft,
                   unswept, lastSet, removedBy, observed, completed, nonCacheVars>>

CacheStep(c) ==
    \/ CacheRLock(c)
    \/ GetBody(c)
    \/ StatsLoadHits(c)
    \/ StatsLoadMisses(c)
    \/ CacheRUnlock(c)
    \/ CacheSet(c)
    \/ CacheInvalidate(c)
    \/ CacheInvalidateAll(c)
    \/ CacheReturn(c)

\* ---------------------------------------------------------------- handlers

\* the text fields of a request body are sequences of characters; Str is the Go
\* string they denote
RECURSIVE Str(_)
Str(cs) == IF cs = <<>> THEN "" ELSE Head(cs) \o Str(Tail(cs))

\* unicode.IsSpace on the characters tried
Space == {" ", "\t", "\n", "\r"}

Letter ==
    {"a", "b", "c", "d", "e", "f", "g", "h", "i", "j", "k", "l", "m", "n", "o", "p", "q", "r",
     "s", "t", "u", "v", "w", "x", "y", "z", "A", "B", "C", "D", "E", "F", "G", "H", "I", "J",
     "K", "L", "M", "N", "O", "P", "Q", "R", "S", "T", "U", "V", "W", "X", "Y", "Z"}
Alnum == Letter \cup {Digits[d] : d \in 1..10}

\* faulty variant: a string of spaces counts as a value
NonEmptyUntrimmed(cs) == cs # <<>>

\* validator.NonEmpty: strings.TrimSpace(s) != ""
NonEmpty(cs) == \E i \in 1..Len(cs) : cs[i] \notin Space

\* validator.Email: ^[a-zA-Z0-9._%+-]+@[a-zA-Z0-9.-]+\.[a-zA-Z]{2,}$
Email(cs) ==
    \E at \in 2..Len(cs) : \E dot \in (at + 2)..(Len(cs) - 2) :
        /\ cs[at] = "@"
        /\ cs[dot] = "."
        /\ \A i \in 1..(at - 1) : cs[i] \in Alnum \cup {".", "_", "%", "+", "-"}
        /\ \A i \in (at + 1)..(dot - 1) : cs[i] \in Alnum \cup {".", "-"}
        /\ \A i \in (dot + 1)..Len(cs) : cs[i] \in Letter

\* faulty variant: any status that is given passes
StatusGiven(st) == st # ""

\* validator.Status: validStatuses[status]
Status(st) == st \in {"pending", "in-progress", "completed"}

\* the request bodies tried
NameN == <<"n">>
Blank == <<" ">>
EmailA == <<"a", "@", "x", ".", "c", "o", "m">>
EmailZ == <<"z", "@", "x", ".", "c", "o", "m">>
EmailNoTLD == <<"z", "@", "x">>
TitleT1 == <<"t", "1">>
TitleT2 == <<"t", "2">>

\* POST /api/users, its body decoded (or not) into CreateUserRequest
CreateUserRequest(n, e, decodes) ==
    [name |-> "createUser", uname |-> n, email |-> e, role |-> <<"r">>, decodes |-> decodes]

\* POST /api/tasks, its body decoded (or not) into CreateTaskRequest
CreateTaskRequest(t, st, u, decodes) ==
    [name |-> "createTask", title |-> t, status |-> st, userID |-> u, decodes |-> decodes]

\* PUT /api/tasks/{id}, its body decoded (or not) into UpdateTaskRequest
UpdateTaskRequest(id, t, st, u, decodes) ==
    [name |-> "updateTask", id |-> id, title |-> Some(t), status |-> Some(st),
     userID |-> Some(u), decodes |-> decodes]

\* the requests a client may send
WriteRequests ==
    { CreateUserRequest(NameN, EmailZ, TRUE), CreateUserRequest(NameN, EmailA, TRUE),
      CreateUserRequest(Blank, EmailZ, TRUE), CreateUserRequest(NameN, EmailNoTLD, TRUE),
      CreateUserRequest(NameN, EmailZ, FALSE),
      CreateTaskRequest(TitleT1, "pending", 1, TRUE), CreateTaskRequest(TitleT1, "pending", 9, TRUE),
      CreateTaskRequest(Blank, "pending", 1, TRUE), CreateTaskRequest(TitleT1, "done", 1, TRUE),
      UpdateTaskRequest(1, TitleT2, "completed", 2, TRUE),
      UpdateTaskRequest(9, TitleT2, "completed", 2, TRUE),
      UpdateTaskRequest(1, TitleT2, "done", 2, TRUE),
      UpdateTaskRequest(1, TitleT2, "completed", 9, TRUE),
      UpdateTaskRequest(1, Blank, "completed", 2, TRUE),
      UpdateTaskRequest(1, TitleT2, "completed", 2, FALSE),
      UpdateTaskRequest(9, Blank, "done", 9, FALSE) }
ReadRequests ==
    {[name |-> "listUsers"], [name |-> "listTasks", status |-> "", userID |-> <<>>],
     [name |-> "handleStats"]}

\* createUser / createTask: the error code of the checks made before the Store
\* is called, "" when the request passes them
SyntaxError(r) ==
    CASE r.name = "createUser" ->
            IF ~r.decodes THEN "INVALID_JSON"
            ELSE IF ~NonEmpty(r.uname) THEN "INVALID_NAME"
            ELSE IF ~NonEmpty(r.email) THEN "INVALID_EMAIL"
            ELSE IF ~Email(r.email) THEN "INVALID_EMAIL_FORMAT"
            ELSE IF ~NonEmpty(r.role) THEN "INVALID_ROLE"
            ELSE ""
      [] r.name = "createTask" ->
            IF ~r.decodes THEN "INVALID_JSON"
            ELSE IF ~NonEmpty(r.title) THEN "INVALID_TITLE"
            ELSE IF ~Status(r.status) THEN "INVALID_STATUS"
            ELSE ""
      [] r.name = "updateTask" -> ""

\* the Store method a handler calls first to validate a write request
ValidationOf(r) ==
    CASE r.name = "createUser" -> [name |-> "UserExistsByEmail", email |-> Str(r.email)]
      [] r.name = "createTask" -> [name |-> "GetUserByID", id |-> r.userID]
      [] r.name = "updateTask" -> [name |-> "GetTaskByID", id |-> r.id]

\* the Store method that carries a write request out
WriteOf(r) ==
    CASE r.name = "createUser" ->
            [name |-> "CreateUser", uname |-> Str(r.uname), email |-> Str(r.email),
             role |-> Str(r.role)]
      [] r.name = "createTask" ->
            [name |-> "CreateTask", title |-> Str(r.title), status |-> r.status,
             userID |-> r.userID]
      [] r.name = "updateTask" ->
            [name |-> "UpdateTask", id |-> r.id,
             title |-> IF r.title.set THEN Some(Str(r.title.val)) ELSE r.title,
             status |-> r.status, userID |-> r.userID]

\* the Store method a cached read calls on a miss
ReadOf(r) ==
    CASE r.name = "listUsers" -> [name |-> "GetUsers"]
      [] r.name = "listTasks" -> [name |-> "GetTasks", status |-> r.status, userID |-> r.userID]
      [] r.name = "handleStats" -> [name |-> "GetStats"]

\* the cache key of a cached read
KeyOf(r) ==
    CASE r.name = "listUsers" -> UsersKey
      [] r.name = "listTasks" -> TasksKey(r.status, Str(r.userID))
      [] r.name = "handleStats" -> StatsKey

\* faulty variant: InvalidateUserCaches invalidates the users-list key twice
InvalidateUserCachesUsersOnly == <<UsersKey, UsersKey>>

\* InvalidateUserCaches: the keys of its two Invalidate calls, in their order
InvalidateUserCaches == <<UsersKey, StatsKey>>

\* the Store method of caller c has returned to the handler
StoreReturned(c) == pc[c] \in {"done", "encTitle"}

\* faulty variant: updateTask decodes and validates the body before it looks
\* for the task
VerdictBodyFirst(c) ==
    LET r == hreq[c]
        badTitle == r.title.set /\ ~NonEmpty(r.title.val)
    IN CASE r.name = "createUser" -> IF ret[c].UserExistsByEmail THEN "EMAIL_EXISTS" ELSE ""
         [] r.name = "createTask" -> IF ret[c].GetUserByID.idx = 0 THEN "INVALID_USER_ID" ELSE ""
         [] r.name = "updateTask" /\ hpc[c] = "validate" ->
               IF ~r.decodes THEN "INVALID_JSON"
               ELSE IF r.status.set /\ ~Status(r.status.val) THEN "INVALID_STATUS"
               ELSE IF ret[c] = Nil THEN "TASK_NOT_FOUND"
               ELSE IF r.userID.set THEN ""
               ELSE IF badTitle THEN "INVALID_TITLE"
               ELSE ""
         [] r.name = "updateTask" /\ hpc[c] = "validateUser" ->
               IF ret[c].GetUserByID.idx = 0 THEN "INVALID_USER_ID"
               ELSE IF badTitle THEN "INVALID_TITLE"
               ELSE ""

\* the error code the handler of caller c answers with after the Store call
\* that validates its request has returned, "" when it goes on
Verdict(c) ==
    LET r == hreq[c]
        badTitle == r.title.set /\ ~NonEmpty(r.title.val)
    IN CASE r.name = "createUser" -> IF ret[c].UserExistsByEmail THEN "EMAIL_EXISTS" ELSE ""
         [] r.name = "createTask" -> IF ret[c].GetUserByID.idx = 0 THEN "INVALID_USER_ID" ELSE ""
         [] r.name = "updateTask" /\ hpc[c] = "validate" ->
               IF ret[c] = Nil THEN "TASK_NOT_FOUND"
               ELSE IF ~r.decodes THEN "INVALID_JSON"
               ELSE IF r.status.set /\ ~Status(r.status.val) THEN "INVALID_STATUS"
               ELSE IF r.userID.set THEN ""
               ELSE IF badTitle THEN "INVALID_TITLE"
               ELSE ""
         [] r.name = "updateTask" /\ hpc[c] = "validateUser" ->
               IF ret[c].GetUserByID.idx = 0 THEN "INVALID_USER_ID"
               ELSE IF badTitle THEN "INVALID_TITLE"
               ELSE ""

\* faulty variant: the answer of the Store is not looked at
ValidAlways(c) == TRUE

\* the validating call of caller c's request has found it acceptable
Valid(c) == Verdict(c) = ""

\* updateTask validates the user of the request after the task's existence
ValidatesUser(c) == hreq[c].name = "updateTask" /\ hpc[c] = "validate" /\ hreq[c].userID.set

\* the write requests that have been answered with their result
Answered ==
    {hreq[d] : d \in {e \in Callers : /\ hpc[e] = "idle"
                                      /\ hreq[e] \in WriteRequests
                                      /\ events[e] # <<>>
                                      /\ events[e][Len(events[e])] = "response"}}

\* a cached read, with the write requests answered before it arrived
Since(r, answered) ==
    CASE r.name = "listUsers" -> [name |-> r.name, after |-> answered]
      [] r.name = "listTasks" ->
            [name |-> r.name, status |-> r.status, userID |-> r.userID, after |-> answered]
      [] r.name = "handleStats" -> [name |-> r.name, after |-> answered]

\* the handler calls the Store method o
StoreCall(c, o) ==
    /\ pc[c] \in {"idle", "done", "encTitle"}
    /\ op' = [op EXCEPT ![c] = o]
    /\ pc' = [pc EXCEPT ![c] = IF o.name \in WriteOps THEN "lock" ELSE "rlock"]
    /\ loc' = [loc EXCEPT ![c] = 0]
    /\ ret' = [ret EXCEPT ![c] = Nil]
    /\ enc' = [enc EXCEPT ![c] = NoTask]
    /\ atEffect' = [atEffect EXCEPT ![c] = NoTask]
    /\ spawned' = [spawned EXCEPT ![c] = 0]
    /\ seen' = [seen EXCEPT ![c] = {returned, committed}]
    /\ UNCHANGED <<storeVars, mu, saves, fileVars, opsLeft, failsLeft, histVars, failSinceMut,
                   bootVars, limiterVars>>

\* the handler calls the Cache method o
HandlerCacheCall(c, o) ==
    /\ cpc[c] \in {"idle", "done"}
    /\ cop' = [cop EXCEPT ![c] = o]
    /\ cpc' = [cpc EXCEPT ![c] = IF o.name \in {"Get", "Stats"} THEN "rlock" ELSE "lock"]
    /\ cloc' = [cloc EXCEPT ![c] = 0]
    /\ cret' = [cret EXCEPT ![c] = [none |-> TRUE]]
    /\ UNCHANGED <<entries, hits, misses, creaders, now, cacheOpsLeft,
                   unswept, lastSet, removedBy, observed, completed>>

\* a request arrives at a free handler goroutine: a write request is validated
\* against the Store, a cached read looks into the Cache
Arrive(c) ==
    /\ hpc[c] = "idle"
    /\ requestsLeft > 0
    /\ requestsLeft' = requestsLeft - 1
    /\ events' = [events EXCEPT ![c] = <<>>]
    /\ \/ \E r \in WriteRequests :
             /\ hreq' = [hreq EXCEPT ![c] = r]
             /\ SyntaxError(r) = ""
             /\ hpc' = [hpc EXCEPT ![c] = "validate"]
             /\ StoreCall(c, ValidationOf(r))
             /\ UNCHANGED cacheVars
       \/ \E r \in ReadRequests :
             /\ hreq' = [hreq EXCEPT ![c] = Since(r, Answered)]
             /\ hpc' = [hpc EXCEPT ![c] = "lookup"]
             /\ HandlerCacheCall(c, [name |-> "Get", key |-> KeyOf(r)])
             /\ UNCHANGED <<innerVars, bootVars, limiterVars>>

\* the request comes straight from the mux, as Start sets the server up
Receive(c) == Arrive(c) /\ UNCHANGED authVars

\* GET /api/tasks with the filters tried: the two pairs (status, userId) share
\* the key TasksKey gives them
TaskQueries ==
    {[name |-> "listTasks", status |-> "a:b", userID |-> <<>>],
     [name |-> "listTasks", status |-> "a", userID |-> <<"b", ":">>]}

\* listTasks: a request with filters arrives at a free handler goroutine
ArriveQuery(c) ==
    /\ hpc[c] = "idle"
    /\ requestsLeft > 0
    /\ requestsLeft' = requestsLeft - 1
    /\ events' = [events EXCEPT ![c] = <<>>]
    /\ \E r \in TaskQueries :
          /\ hreq' = [hreq EXCEPT ![c] = Since(r, Answered)]
          /\ hpc' = [hpc EXCEPT ![c] = "lookup"]
          /\ HandlerCacheCall(c, [name |-> "Get", key |-> KeyOf(r)])
    /\ UNCHANGED <<innerVars, bootVars, limiterVars, authVars>>

\* createUser / createTask: a request that does not decode or has a field that
\* does not pass the validator is answered with writeError at once
ArriveDefective(c) ==
    /\ hpc[c] = "idle"
    /\ requestsLeft > 0
    /\ requestsLeft' = requestsLeft - 1
    /\ \E r \in WriteRequests :
          /\ SyntaxError(r) # ""
          /\ hreq' = [hreq EXCEPT ![c] = r]
          /\ events' = [events EXCEPT ![c] = <<SyntaxError(r)>>]
    /\ UNCHANGED <<hpc, innerVars, cacheVars, bootVars, limiterVars>>

\* the defective request comes straight from the mux
RejectSyntax(c) == ArriveDefective(c) /\ UNCHANGED authVars

\* createUser / createTask / updateTask: the validation failed, writeError
Reject(c) ==
    /\ hpc[c] \in {"validate", "validateUser"}
    /\ StoreReturned(c)
    /\ ~Valid(c)
    /\ hpc' = [hpc EXCEPT ![c] = "idle"]
    /\ events' = [events EXCEPT ![c] = Append(@, Verdict(c))]
    /\ UNCHANGED <<hreq, requestsLeft, innerVars, cacheVars, bootVars, limiterVars, authVars>>

\* updateTask: the task exists; h.store.GetUserByID(*req.UserID)
ValidateUser(c) ==
    /\ ValidatesUser(c)
    /\ StoreReturned(c)
    /\ Valid(c)
    /\ StoreCall(c, [name |-> "GetUserByID", id |-> hreq[c].userID.val])
    /\ hpc' = [hpc EXCEPT ![c] = "validateUser"]
    /\ UNCHANGED <<hreq, requestsLeft, events, cacheVars, authVars>>

\* createUser / createTask / updateTask: the call of the Store's write method
CallWrite(c) ==
    /\ hpc[c] \in {"validate", "validateUser"}
    /\ ~ValidatesUser(c)
    /\ StoreReturned(c)
    /\ Valid(c)
    /\ StoreCall(c, WriteOf(hreq[c]))
    /\ hpc' = [hpc EXCEPT ![c] = "write"]
    /\ UNCHANGED <<hreq, requestsLeft, events, cacheVars, authVars>>

\* createUser: the write has returned; InvalidateUserCaches, its first call
InvalidateUsersKey(c) ==
    /\ hpc[c] = "write"
    /\ hreq[c].name = "createUser"
    /\ StoreReturned(c)
    /\ HandlerCacheCall(c, [name |-> "Invalidate", keys |-> {InvalidateUserCaches[1]}])
    /\ hpc' = [hpc EXCEPT ![c] = "invalidateUsers"]
    /\ events' = [events EXCEPT ![c] = Append(@, "written")]
    /\ UNCHANGED <<hreq, requestsLeft, innerVars, bootVars, limiterVars, authVars>>

\* createUser: InvalidateUserCaches, its second call
InvalidateStatsKey(c) ==
    /\ hpc[c] = "invalidateUsers"
    /\ cpc[c] = "done"
    /\ HandlerCacheCall(c, [name |-> "Invalidate", keys |-> {InvalidateUserCaches[2]}])
    /\ hpc' = [hpc EXCEPT ![c] = "invalidate"]
    /\ UNCHANGED <<hreq, requestsLeft, events, innerVars, bootVars, limiterVars, authVars>>

\* createTask / updateTask: the write has returned; InvalidateTaskCaches
InvalidateTaskCaches(c) ==
    /\ hpc[c] = "write"
    /\ hreq[c].name \in {"createTask", "updateTask"}
    /\ StoreReturned(c)
    /\ HandlerCacheCall(c, [name |-> "InvalidateAll"])
    /\ hpc' = [hpc EXCEPT ![c] = "invalidate"]
    /\ events' = [events EXCEPT ![c] = Append(@, "written")]
    /\ UNCHANGED <<hreq, requestsLeft, innerVars, bootVars, limiterVars, authVars>>

\* the invalidation has returned: writeJSON begins
Invalidated(c) ==
    /\ hpc[c] = "invalidate"
    /\ cpc[c] = "done"
    /\ hpc' = [hpc EXCEPT ![c] = "respond"]
    /\ events' = [events EXCEPT ![c] = Append(@, "invalidated")]
    /\ UNCHANGED <<hreq, requestsLeft, innerVars, cacheVars, bootVars, limiterVars, authVars>>

\* writeJSON of updateTask encodes the task the returned pointer designates
EncodeResponse(c) ==
    /\ hpc[c] = "respond"
    /\ \/ EncodeTitle(c)
       \/ EncodeStatus(c)
       \/ EncodeUserID(c)

\* the response of a write request is written
Respond(c) ==
    /\ hpc[c] = "respond"
    /\ pc[c] = "done"
    /\ hpc' = [hpc EXCEPT ![c] = "idle"]
    /\ events' = [events EXCEPT ![c] = Append(@, "response")]
    /\ UNCHANGED <<hreq, requestsLeft, innerVars, cacheVars, bootVars, limiterVars, authVars>>

\* listUsers / listTasks / handleStats: found in the Cache, the cached value is
\* the response
CacheHit(c) ==
    /\ hpc[c] = "lookup"
    /\ cpc[c] = "done"
    /\ cret[c].found
    /\ hpc' = [hpc EXCEPT ![c] = "idle"]
    /\ events' = [events EXCEPT ![c] = Append(@, "cached")]
    /\ UNCHANGED <<hreq, requestsLeft, innerVars, cacheVars, bootVars, limiterVars, authVars>>

\* listUsers / listTasks / handleStats: not found, the Store is read
CacheMiss(c) ==
    /\ hpc[c] = "lookup"
    /\ cpc[c] = "done"
    /\ ~cret[c].found
    /\ StoreCall(c, ReadOf(hreq[c]))
    /\ hpc' = [hpc EXCEPT ![c] = "read"]
    /\ UNCHANGED <<hreq, requestsLeft, events, cacheVars, authVars>>

\* listUsers / listTasks / handleStats: h.cache.Set(cacheKey, response); asOf is
\* the time of the call, when the response was already read from the Store
CacheFill(c) ==
    /\ hpc[c] = "read"
    /\ pc[c] = "done"
    /\ HandlerCacheCall(c, [name |-> "Set", key |-> KeyOf(hreq[c]),
                                data |-> [response |-> ret[c], asOf |-> now]])
    /\ hpc' = [hpc EXCEPT ![c] = "fill"]
    /\ UNCHANGED <<hreq, requestsLeft, events, innerVars, bootVars, limiterVars, authVars>>

\* listUsers / listTasks / handleStats: the response is written
RespondRead(c) ==
    /\ hpc[c] = "fill"
    /\ cpc[c] = "done"
    /\ hpc' = [hpc EXCEPT ![c] = "idle"]
    /\ events' = [events EXCEPT ![c] = Append(@, "response")]
    /\ UNCHANGED <<hreq, requestsLeft, innerVars, cacheVars, bootVars, limiterVars, authVars>>

Handling(c) ==
    \/ Reject(c)
    \/ ValidateUser(c)
    \/ CallWrite(c)
    \/ InvalidateUsersKey(c)
    \/ InvalidateStatsKey(c)
    \/ InvalidateTaskCaches(c)
    \/ Invalidated(c)
    \/ EncodeResponse(c)
    \/ Respond(c)
    \/ CacheHit(c)
    \/ CacheMiss(c)
    \/ CacheFill(c)
    \/ RespondRead(c)

\* the steps of the handlers behind the mux
HandlerStep(c) ==
    \/ Receive(c)
    \/ RejectSyntax(c)
    \/ Handling(c)

\* the steps of the Store methods the handlers call
HandlerStoreStep(c) ==
    \/ GetUsersOp(c)
    \/ GetUserByIDOp(c)
    \/ UserExistsByEmailOp(c)
    \/ GetTasksOp(c)
    \/ GetStatsOp(c)
    \/ GetTaskByIDOp(c)
    \/ LockMaxID(c)
    \/ CreateUser(c)
    \/ CreateTask(c)
    \/ UpdateTaskFind(c)
    \/ UpdateTaskTitle(c)
    \/ UpdateTaskStatus(c)
    \/ UpdateTaskUserID(c)
    \/ UpdateTaskSpawn(c)
    \/ Unlock(c)

\* the steps of the Cache methods the handlers call
HandlerCacheStep(c) ==
    \/ CacheRLock(c)
    \/ GetBody(c)
    \/ CacheRUnlock(c)
    \/ CacheSet(c)
    \/ CacheInvalidate(c)
    \/ CacheInvalidateAll(c)

\* ------------------------------------------------------------- RateLimiter

\* faulty variant: the loop keeps a time that is exactly one window old
ValidRequestsInclusive(times, t) == SelectSeq(times, LAMBDA reqTime : reqTime >= t - Window)

\* the loop that keeps the times reqTime.After(windowStart), windowStart being
\* t - window
ValidRequests(times, t) == SelectSeq(times, LAMBDA reqTime : reqTime > t - Window)

\* faulty variant: the limit is passed before a call is refused
OverLimit(n) == n > Limit

\* len(validRequests) >= rl.limit
AtLimit(n) == n >= Limit

\* a caller enters Allow(ip)
AllowCall(c) ==
    /\ rlcall[c].pc = "idle"
    /\ allowsLeft > 0
    /\ allowsLeft' = allowsLeft - 1
    /\ \E ip \in IPs : rlcall' = [rlcall EXCEPT ![c] = [pc |-> "lock", ip |-> ip]]
    /\ UNCHANGED <<requests, rlmu, granted, answer, innerVars, cacheVars, bootVars, handlerVars, authVars>>

\* Allow: rl.mu.Lock()
AllowLock(c) ==
    /\ rlcall[c].pc = "lock"
    /\ rlmu = 0
    /\ rlmu' = c
    /\ rlcall' = [rlcall EXCEPT ![c].pc = "body"]
    /\ UNCHANGED <<requests, granted, answer, allowsLeft, innerVars, cacheVars, bootVars,
                   handlerVars, authVars>>

\* faulty variant: Allow records the time of a call it denies as well
AllowRecordingDenied(c) ==
    /\ rlcall[c].pc = "body"
    /\ LET ip == rlcall[c].ip
           validRequests == ValidRequests(requests[ip].times, now)
       IN /\ requests' = [requests EXCEPT ![ip] =
                             [exists |-> TRUE, times |-> Append(validRequests, now)]]
          /\ IF AtLimit(Len(validRequests))
             THEN /\ answer' = [answer EXCEPT ![c] =
                                   [ip |-> ip, allowed |-> FALSE, remaining |-> 0, at |-> now]]
                  /\ UNCHANGED granted
             ELSE /\ answer' = [answer EXCEPT ![c] =
                                   [ip |-> ip, allowed |-> TRUE,
                                    remaining |-> Limit - (Len(validRequests) + 1), at |-> now]]
                  /\ granted' = [granted EXCEPT ![ip] = Append(@, now)]
    /\ rlmu' = 0
    /\ rlcall' = [rlcall EXCEPT ![c].pc = "idle"]
    /\ UNCHANGED <<allowsLeft, innerVars, cacheVars, bootVars, handlerVars, authVars>>

\* Allow under the lock: time.Now(), the filter, the comparison with the limit,
\* the append, the deferred Unlock
Allow(c) ==
    /\ rlcall[c].pc = "body"
    /\ LET ip == rlcall[c].ip
           validRequests == ValidRequests(requests[ip].times, now)
       IN IF AtLimit(Len(validRequests))
          THEN /\ requests' = [requests EXCEPT ![ip] = [exists |-> TRUE, times |-> validRequests]]
               /\ answer' = [answer EXCEPT ![c] =
                                [ip |-> ip, allowed |-> FALSE, remaining |-> 0, at |-> now]]
               /\ UNCHANGED granted
          ELSE /\ requests' = [requests EXCEPT ![ip] =
                                  [exists |-> TRUE, times |-> Append(validRequests, now)]]
               /\ answer' = [answer EXCEPT ![c] =
                                [ip |-> ip, allowed |-> TRUE,
                                 remaining |-> Limit - (Len(validRequests) + 1), at |-> now]]
               /\ granted' = [granted EXCEPT ![ip] = Append(@, now)]
    /\ rlmu' = 0
    /\ rlcall' = [rlcall EXCEPT ![c].pc = "idle"]
    /\ UNCHANGED <<allowsLeft, innerVars, cacheVars, bootVars, handlerVars, authVars>>

\* cleanup, a tick of its ticker: rl.mu.Lock()
CleanupLock ==
    /\ rlmu = 0
    /\ rlmu' = Cleaner
    /\ UNCHANGED <<requests, rlcall, granted, answer, allowsLeft, innerVars, cacheVars, bootVars,
                   handlerVars, authVars>>

\* cleanup under the lock: time.Now(), every IP filtered or deleted, Unlock
Cleanup ==
    /\ rlmu = Cleaner
    /\ requests' = [ip \in IPs |->
                       LET validRequests == ValidRequests(requests[ip].times, now)
                       IN IF ~requests[ip].exists \/ Len(validRequests) = 0 THEN NoRequests
                          ELSE [exists |-> TRUE, times |-> validRequests]]
    /\ rlmu' = 0
    /\ UNCHANGED <<rlcall, granted, answer, allowsLeft, innerVars, cacheVars, bootVars,
                   handlerVars, authVars>>

\* ------------------------------------------------------------ task filters

\* the status filters tried, as the characters of the query parameter
FilterStatuses ==
    {<<>>, <<"a">>, <<"a", ":", "b">>, <<"p", "e", "n", "d", "i", "n", "g">>,
     <<"p", "e", "n", "d", "i", "n", "g", ":", "1">>}

\* the userId filters tried
FilterUserIDs == {<<>>, <<"1">>, <<"1", ":">>, <<"b", ":">>, <<":", "1">>}

\* Store.GetTasks(status, userID) with the filters tried
FilterOps ==
    {[name |-> "GetTasks", status |-> Str(st), userID |-> u] :
        st \in FilterStatuses, u \in FilterUserIDs}

\* listTasks: the call of h.store.GetTasks(status, userID)
Query(c) == InvokeOp(c, FilterOps)

\* listTasks: cache.TasksKey(status, userID) of the call caller c has made
QueryKey(c) == TasksKey(op[c].status, Str(op[c].userID))

\* --------------------------------------------------------------------- Auth

\* the keys Auth is configured with: one plain, one with a leading space, one empty
ValidKeys == {<<"k", "1">>, <<" ", "k", "2">>, <<>>}

\* the X-API-Key headers tried (the empty one is also what a request without
\* the header yields)
Headers ==
    {<<>>, <<" ", "k", "1", "\t">>, <<" ", "k", "2">>, <<"k", "3">>}

\* strings.TrimSpace
RECURSIVE TrimSpace(_)
TrimSpace(cs) ==
    IF cs = <<>> THEN <<>>
    ELSE IF Head(cs) \in Space THEN TrimSpace(Tail(cs))
    ELSE IF cs[Len(cs)] \in Space THEN TrimSpace(SubSeq(cs, 1, Len(cs) - 1))
    ELSE cs

\* Auth: keyMap, the set of the keys of validKeys
keyMap == ValidKeys

\* faulty variant: Auth looks the key up without testing it for emptiness
AuthRejectsUnknown(h) == TrimSpace(h) \notin keyMap

\* Auth: apiKey := strings.TrimSpace(header); apiKey == "" || !keyMap[apiKey]
AuthRejects(h) ==
    LET apiKey == TrimSpace(h)
    IN apiKey = <<>> \/ apiKey \notin keyMap

\* Auth: the key is accepted, next.ServeHTTP(w, r)
AuthNext(c) ==
    \E h \in Headers :
        /\ ~AuthRejects(h)
        /\ header' = [header EXCEPT ![c] = Some(h)]
        /\ Arrive(c)

\* Auth: the key is accepted, next.ServeHTTP(w, r) with a defective request
AuthNextDefective(c) ==
    \E h \in Headers :
        /\ ~AuthRejects(h)
        /\ header' = [header EXCEPT ![c] = Some(h)]
        /\ ArriveDefective(c)

\* Auth: the key is refused, 401 with the code UNAUTHORIZED, and return
Unauthorized(c) ==
    /\ hpc[c] = "idle"
    /\ requestsLeft > 0
    /\ requestsLeft' = requestsLeft - 1
    /\ \E h \in Headers :
          /\ AuthRejects(h)
          /\ header' = [header EXCEPT ![c] = Some(h)]
    /\ events' = [events EXCEPT ![c] = <<"UNAUTHORIZED">>]
    /\ UNCHANGED <<hreq, hpc, innerVars, cacheVars, bootVars, limiterVars>>

\* ----------------------------------------------------------- specifications

\* the steps of a write method and of the encoding of its result
WriteStep(c) ==
    \/ LockMaxID(c)
    \/ CreateUser(c)
    \/ CreateTask(c)
    \/ UpdateTaskFind(c)
    \/ UpdateTaskTitle(c)
    \/ UpdateTaskStatus(c)
    \/ UpdateTaskUserID(c)
    \/ UpdateTaskSpawn(c)
    \/ Unlock(c)
    \/ EncodeTitle(c)
    \/ EncodeStatus(c)
    \/ EncodeUserID(c)
    \/ Return(c)

\* The Store under concurrent callers. The save goroutines are started and left
\* unscheduled: their steps write only the files, `saves` and the read holders of
\* s.mu, so they add no state of the collections or of a caller.
Next ==
    \E c \in Callers :
        \/ Invoke(c)
        \/ GetUsersOp(c)
        \/ GetUserByIDOp(c)
        \/ UserExistsByEmailOp(c)
        \/ GetTasksOp(c)
        \/ GetStatsOp(c)
        \/ GetTaskByIDOp(c)
        \/ WriteStep(c)

Spec == Init /\ [][Next]_vars

SaveStep(g) ==
    \/ PersistBegin(g)
    \/ SaveOpen(g)
    \/ SaveWrite(g)
    \/ SaveRename(g)
    \/ PersistEnd(g)

\* The writes, the health check and the saves they start, down to the files.
\* One caller is enough to have several saves and a write in progress together:
\* a write returns before its save has begun.
PersistNext ==
    \/ \E c \in PersistCallers :
          \/ Request(c)
          \/ GetUsersOp(c)
          \/ HealthGetUsers(c)
          \/ HealthDone(c)
          \/ WriteStep(c)
    \/ \E g \in Saves : SaveStep(g)

PersistSpec == Init /\ [][PersistNext]_vars


\* The start-up of the process, on each data file it may find.
BootNext ==
    \/ LoadStat
    \/ LoadRead
    \/ LoadParse
    \/ InitializeDecide

\* main before store.Initialize: no Store yet
BootInit == Started /\ init0.users = <<>> /\ Booting

BootSpec == BootInit /\ [][BootNext]_vars

\* The handlers serving concurrent requests on a seeded Store and its Cache.
\* The saves are started and left unscheduled, and the clock stands still:
\* neither takes part in the invalidation of the Cache.
HandlerNext ==
    \E c \in Callers :
        \/ HandlerStep(c)
        \/ HandlerStoreStep(c)
        \/ HandlerCacheStep(c)

\* the server started on a seeded Store
HandlerInit == Init /\ Len(init0.users) = 2 /\ init0.users[1].ID = 1

HandlerSpec == HandlerInit /\ [][HandlerNext]_vars

\* One handler goroutine at a time, with the passing of time and the sweep of
\* the Cache.
TimedHandlerNext ==
    \/ \E c \in PersistCallers :
          \/ HandlerStep(c)
          \/ HandlerStoreStep(c)
          \/ HandlerCacheStep(c)
    \/ Sweep
    \/ Tick

TimedHandlerSpec == HandlerInit /\ [][TimedHandlerNext]_vars

\* The handlers wrapped in Auth, serving concurrent requests.
AuthedNext ==
    \E c \in Callers :
        \/ AuthNext(c)
        \/ AuthNextDefective(c)
        \/ Unauthorized(c)
        \/ Handling(c)
        \/ HandlerStoreStep(c)
        \/ HandlerCacheStep(c)

AuthSpec == HandlerInit /\ [][AuthedNext]_vars

\* The handlers serving one request at a time, the filtered task lists among
\* them, on a Store loaded from a data file written by hand, with the passing
\* of time and the sweep of the Cache.
SequentialNext ==
    \/ \E c \in PersistCallers :
          \/ ArriveQuery(c)
          \/ HandlerStep(c)
          \/ HandlerStoreStep(c)
          \/ HandlerCacheStep(c)
    \/ Sweep
    \/ Tick

SequentialInit == StartedOn(ColonStores) /\ Booted

SequentialSpec == SequentialInit /\ [][SequentialNext]_vars

\* Store.GetTasks called with every pair of filters by two callers, on each
\* Store tried, the one loaded from a data file written by hand among them.
QueryNext ==
    \E c \in Callers :
        \/ Query(c)
        \/ GetTasksOp(c)

QueryInit == StartedOn(InitStores \cup ColonStores) /\ Booted

QuerySpec == QueryInit /\ [][QueryNext]_vars

\* The Cache called by one caller, with its sweep and the passing of time, on a
\* Store nobody calls.
CacheNext ==
    \/ \E c \in PersistCallers :
          \/ CacheInvoke(c)
          \/ CacheStep(c)
    \/ Sweep
    \/ Tick

\* the server started on an empty Store
CacheInit == Init /\ init0.users = <<>>

CacheSpec == CacheInit /\ [][CacheNext]_vars

\* The Cache called by concurrent callers.
SharedCacheNext ==
    \/ \E c \in Callers :
          \/ SharedCacheInvoke(c)
          \/ CacheStep(c)
    \/ Sweep
    \/ Tick

SharedCacheSpec == CacheInit /\ [][SharedCacheNext]_vars

\* The RateLimiter under concurrent callers, with its cleanup and the passing of
\* time.
LimiterNext ==
    \/ \E c \in Callers :
          \/ AllowCall(c)
          \/ AllowLock(c)
          \/ Allow(c)
    \/ CleanupLock
    \/ Cleanup
    \/ Tick

LimiterSpec == CacheInit /\ [][LimiterNext]_vars

MaxServed == 2   \* requests in one behaviour of the server whole

\* a request arrives, one of the MaxServed: a write that passes validation, or
\* a cached read
ServerReceive(c) ==
    /\ requestsLeft > MaxRequests - MaxServed
    /\ Receive(c)
    /\ hreq'[c].name \in {"createTask", "listTasks", "handleStats"}

\* The server whole: a handler goroutine, the Store and the Cache it calls, the
\* saves its writes start, the sweep of the Cache and the passing of time.
ServerProgress(c) ==
    \/ Reject(c)
    \/ CallWrite(c)
    \/ InvalidateTaskCaches(c)
    \/ Invalidated(c)
    \/ Respond(c)
    \/ CacheHit(c)
    \/ CacheMiss(c)
    \/ CacheFill(c)
    \/ RespondRead(c)
    \/ GetUserByIDOp(c)
    \/ GetTasksOp(c)
    \/ GetStatsOp(c)
    \/ LockMaxID(c)
    \/ CreateTask(c)
    \/ Unlock(c)
    \/ CacheRLock(c)
    \/ GetBody(c)
    \/ CacheRUnlock(c)
    \/ CacheSet(c)
    \/ CacheInvalidateAll(c)

ServerNext ==
    \/ \E c \in Callers :
          \/ ServerReceive(c)
          \/ ServerProgress(c)
    \/ \E g \in Saves : SaveStep(g)
    \/ Sweep
    \/ Tick

ServerSpec == HandlerInit /\ [][ServerNext]_vars

\* a caller inside a method goes on (the Go scheduler runs every runnable
\* goroutine); nothing obliges a new request to arrive
CallerProgress(c) ==
    \/ GetUsersOp(c)
    \/ HealthGetUsers(c)
    \/ HealthDone(c)
    \/ WriteStep(c)

\* a started save goroutine goes on, with whatever outcome its file calls have
SaveProgress(g) == g \in Saves /\ SaveStep(g)

\* every step of a caller moves its position and every step of a save moves
\* the save's, so the steps are told apart by these two variables alone
progress == <<pc, saves>>

FairPersistSpec ==
    /\ PersistSpec
    /\ \A c \in PersistCallers : WF_progress(CallerProgress(c))
    /\ \A g \in 1..(MaxOps + 1) : WF_progress(SaveProgress(g))

\* a handler that has received its request, a started save or the sweep takes
\* a step
ServerRun ==
    \/ \E c \in Callers : ServerProgress(c)
    \/ \E g \in Saves : SaveStep(g)
    \/ Sweep

\* the Go scheduler does not leave every runnable goroutine waiting for ever;
\* nothing obliges a request to arrive or the clock to advance
FairServerSpec == ServerSpec /\ WF_vars(ServerRun)

\* ------------------------------------------------------------------- claims

\* the largest element of a non-empty set of integers
SetMax(S) == CHOOSE m \in S : \A x \in S : x <= m
IDs(s) == {s[i].ID : i \in 1..Len(s)}
Front(s) == SubSeq(s, 1, Len(s) - 1)

\* the identifier the data model prescribes for a collection holding `before`
ExpectedID(before) == IF before = <<>> THEN 1 ELSE SetMax(IDs(before)) + 1

\* the record a create has appended is the last one, and its identifier is the
\* largest identifier of the records before it plus one (1 for none)
AssignedRight(rec, coll) ==
    /\ coll # <<>>
    /\ rec = coll[Len(coll)]
    /\ rec.ID = ExpectedID(Front(coll))
    /\ \A x \in IDs(Front(coll)) : x < rec.ID

\* C1: when CreateUser / CreateTask has appended its record (and still holds the
\* lock), the identifier it returns is max(identifiers of its own collection
\* before the call) + 1, or 1 for an empty collection: larger than every
\* identifier handed out before, and computed from its own collection only.
C1_IdIsMaxPlusOne ==
    \A c \in Callers :
        pc[c] = "unlock" =>
            /\ op[c].name = "CreateUser" => AssignedRight(ret[c], users)
            /\ op[c].name = "CreateTask" => AssignedRight(ret[c], tasks)

\* a third create in a row, on collections that started unsorted with a gap
C1_Witness ==
    \E c \in Callers :
        /\ pc[c] = "unlock"
        /\ op[c].name = "CreateTask"
        /\ init0.tasks # <<>> /\ init0.tasks[1].ID = 4
        /\ ret[c].ID = 6
        /\ Len(users) = 3 /\ users[3].ID = 4

Gapless(s) == \A i \in 1..Len(s) : s[i].ID = i

\* C2: on a Store whose user identifiers are 1..k, after N CreateUser calls have
\* taken effect, in whatever interleaving with each other and with the reads,
\* the Store holds k+N users and their identifiers are 1..k+N in order: none
\* twice, none skipped.
C2_ConcurrentCreatesGapless ==
    Gapless(init0.users) =>
        /\ Len(users) = Len(init0.users) + userCreates
        /\ Gapless(users)

\* two CreateUser calls contend for the lock after an earlier one
C2_Witness ==
    /\ Gapless(init0.users) /\ Len(init0.users) = 2
    /\ userCreates = 2
    /\ \E c, d \in Callers :
          /\ op[c].name = "CreateUser" /\ pc[c] = "unlock"
          /\ op[d].name = "CreateUser" /\ pc[d] = "lock"


ReadNames == {"GetUsers", "GetUserByID", "UserExistsByEmail", "GetTasks", "GetTaskByID", "GetStats"}

\* the result of caller c's read is the one the read gives on the collections st
ResultOn(c, st) ==
    LET o == op[c]
    IN CASE o.name = "GetUsers" -> ret[c].GetUsers = st.users
         [] o.name = "GetUserByID" ->
               ret[c].GetUserByID.idx = (IF \E i \in 1..Len(st.users) : st.users[i].ID = o.id
                             THEN CHOOSE i \in 1..Len(st.users) :
                                     /\ st.users[i].ID = o.id
                                     /\ \A j \in 1..(i - 1) : st.users[j].ID # o.id
                             ELSE 0)
         [] o.name = "UserExistsByEmail" -> ret[c].UserExistsByEmail = (o.email \in {st.users[i].Email : i \in 1..Len(st.users)})
         [] o.name = "GetTasks" -> ret[c].GetTasks = GetTasks(st.tasks, o.status, o.userID)
         [] o.name = "GetTaskByID" ->
               IF \E i \in 1..Len(st.tasks) : st.tasks[i].ID = o.id
               THEN /\ ret[c].idx # 0
                    /\ ret[c].idx <= Len(st.tasks)
                    /\ st.tasks[ret[c].idx].ID = o.id
                    /\ atEffect[c] = st.tasks[ret[c].idx]
               ELSE ret[c] = Nil
         [] o.name = "GetStats" -> ret[c].GetStats = GetStats(st.users, st.tasks)

\* the method of caller c has returned
HasReturned(c) == pc[c] \in {"done", "encTitle", "encStatus", "encUserID"}

\* C3: what a Store read returns is the read's result on the collections as some
\* write that took effect left them whole (never on a half-applied write), and
\* that write is the latest one that had returned when the read was invoked, or
\* a later one.
C3_ReadsLinearizable ==
    \A c \in Callers :
        (HasReturned(c) /\ op[c].name \in ReadNames) => \E st \in seen[c] : ResultOn(c, st)

\* a GetTasks that was invoked before a write took effect and returns the
\* collections after it
C3_Witness ==
    \E c \in Callers :
        /\ pc[c] = "done"
        /\ op[c].name = "GetTasks"
        /\ op[c].status = ""
        /\ op[c].userID = <<>>
        /\ \E st \in seen[c] : st.tasks # committed.tasks
        /\ ret[c].GetTasks = committed.tasks

\* C4: what the caller reads through the record handed back by GetTaskByID or
\* UpdateTask, after the method has returned, is the task as it was when the
\* method took effect.
C4_ReturnedRecordIsSnapshot ==
    \A c \in Callers :
        (pc[c] = "done" /\ op[c].name \in PointerOps /\ ret[c] # Nil) => enc[c] = atEffect[c]


\* C5: a save that is in a file system call (the open, the write, the rename)
\* does not hold the Store's read lock.
C5_NoFileIOUnderLock ==
    \A g \in Saves : saves[g].pc \in {"write", "rename"} => g \notin mu.readers

\* C6: a write method that changed the collections has started exactly one save
\* goroutine by the time it returns (none when UpdateTask found no task), and its
\* return never waits: once the goroutine is started the method can return
\* whatever state the saves are in.
C6_OneDetachedSavePerWrite ==
    \A c \in Callers :
        op[c].name \in WriteOps =>
            /\ (pc[c] = "unlock" \/ HasReturned(c)) => spawned[c] = (IF Wrote(c) THEN 1 ELSE 0)
            /\ pc[c] = "unlock" => ENABLED Unlock(c)

\* a CreateTask has returned while the save it started has not begun, behind an
\* earlier save that is still writing
C6_Witness ==
    \E c \in Callers :
        /\ pc[c] = "done"
        /\ op[c].name = "CreateTask"
        /\ Len(saves) = 2
        /\ saves[1].pc = "write"
        /\ saves[2].pc = "start"
        /\ saves[2].origin = "mutation"

\* C7: the primary data file is absent or holds one complete serialized
\* snapshot, in every state the saves can be stopped in.
C7_PrimaryAbsentOrComplete == dataFile.exists => Parses(dataFile.data)

\* C8: the collections are always what the writes that took effect made of them,
\* whatever the saves did (nothing is rolled back when a save fails), and
\* GetUsers returns them.
C8_SaveFailureLeavesMemory ==
    /\ mu.writer = 0 => (users = committed.users /\ tasks = committed.tasks)
    /\ Len(users) = Len(init0.users) + userCreates
    /\ \A c \in Callers :
          (pc[c] = "done" /\ op[c].name = "GetUsers") => \E st \in seen[c] : ret[c].GetUsers = st.users

\* the save of a first CreateUser failed, a second CreateUser took effect after
\* the failure, and GetUsers returns both users
C8_Witness ==
    /\ failsLeft < MaxFails
    /\ ~failSinceMut
    /\ userCreates = 2
    /\ saves[1].origin = "mutation" /\ saves[1].err /\ saves[1].pc = "done"
    /\ \E c \in Callers :
          /\ pc[c] = "done"
          /\ op[c].name = "GetUsers"
          /\ Len(ret[c].GetUsers) = Len(init0.users) + 2

NumSaves(origin) == Cardinality({g \in Saves : saves[g].origin = origin})

FileIsCurrent == dataFile = [exists |-> TRUE, data |-> Marshal(users, tasks)]

\* C10: if from some point on no write takes effect and no file call of a save
\* fails after the latest write, then from some point on the primary data file
\* holds exactly the current users and tasks (given that there was a write).
C10_FileCatchesUp ==
    <>[](~failSinceMut) => <>[](mutCount > 0 => FileIsCurrent)

\* all saves have ended, the latest one of two by a failed rename that found the
\* temporary file gone, and the file holds the collections two writes produced
C10_Witness ==
    /\ mutCount = 2
    /\ ~failSinceMut
    /\ Len(saves) = 2
    /\ \A g \in Saves : saves[g].pc = "done"
    /\ \E g \in Saves : saves[g].err
    /\ failsLeft = MaxFails
    /\ FileIsCurrent


\* the task old with the supplied fields of the request o written over it
Overwritten(old, o) ==
    Task(old.ID,
         IF o.title.set THEN o.title.val ELSE old.Title,
         IF o.status.set THEN o.status.val ELSE old.Status,
         IF o.userID.set THEN o.userID.val ELSE old.UserID)

\* C12: when UpdateTask has found its task and is through with it, the task
\* carries the supplied fields and otherwise what it carried when the call took
\* the lock (its identifier included), it is where it was, every other task and
\* every user are as they were, and the task handed back is that task.
C12_UpdateTaskFrame ==
    [][\A c \in Callers :
          (pc[c] = "spawn" /\ pc'[c] = "unlock") =>
              LET old == committed.tasks
                  i == loc[c]
              IN /\ old[i].ID = op[c].id
                 /\ users' = committed.users
                 /\ Len(tasks') = Len(old)
                 /\ \A j \in 1..Len(old) : j # i => tasks'[j] = old[j]
                 /\ tasks'[i] = Overwritten(old[i], op[c])
                 /\ atEffect'[c] = tasks'[i]
                 /\ ret'[c] = [idx |-> i, gen |-> tasksGen']]_vars

\* an UpdateTask that supplied status and userId but no title has gone through,
\* and one that supplied nothing has
C12_Witness ==
    \E c \in Callers :
        /\ pc[c] = "unlock"
        /\ Found(c)
        /\ ~op[c].title.set /\ ~op[c].status.set /\ ~op[c].userID.set
        /\ mutCount = 2
        /\ loc[c] <= Len(init0.tasks)
        /\ tasks[loc[c]] = [init0.tasks[loc[c]] EXCEPT !.Status = "completed", !.UserID = 2]

\* no task has the identifier caller c's UpdateTask asks for
Missing(c) == op[c].name = "UpdateTask" /\ \A i \in 1..Len(tasks) : tasks[i].ID # op[c].id

\* C13: an UpdateTask whose identifier no task has hands back nil, starts no
\* save, and leaves users, tasks and the started saves as they are.
C13_UpdateTaskNotFound ==
    /\ [](\A c \in Callers :
            (Missing(c) /\ pc[c] \notin {"idle", "lock"}) =>
                /\ pc[c] \in {"unlock", "done"}
                /\ ret[c] = Nil
                /\ spawned[c] = 0
                /\ loc[c] = 0)
    /\ [][\A c \in Callers :
            (Missing(c) /\ pc[c] \in {"lock", "unlock"} /\ pc'[c] # pc[c]) =>
                /\ users' = users
                /\ tasks' = tasks
                /\ saves' = saves
                /\ mutCount' = mutCount]_vars

\* an UpdateTask for an identifier no task has has returned, on a Store that
\* holds tasks
C13_Witness ==
    \E c \in Callers :
        /\ pc[c] = "done"
        /\ Missing(c)
        /\ tasks # <<>>
        /\ ret[c] = Nil


\* caller c's Get has its result
GetDone(c) == cop[c].name = "Get" /\ cpc[c] \in {"runlock", "done"}

Miss == [Data |-> NoData, found |-> FALSE]

\* C14: a Get of a key whose latest Set (with no invalidation of the key since)
\* stored v returns (v, true) when the time it reads is not later than the time
\* of that Set + ttl, and (nil, false) when it is later, swept or not.
C14_GetAfterSet ==
    \A c \in Callers :
        (GetDone(c) /\ observed[c].last.set) =>
            IF observed[c].at <= observed[c].last.at + TTL
            THEN cret[c] = [Data |-> observed[c].last.val, found |-> TRUE]
            ELSE cret[c] = Miss

\* after a Get has returned the value, a Get of a key set more than ttl ago
\* returns (nil, false) while the entry is still in the map
C14_Witness ==
    \E c \in Callers :
        /\ GetDone(c)
        /\ observed[c].last.set
        /\ observed[c].at > observed[c].last.at + TTL
        /\ entries[cop[c].key].present
        /\ cret[c] = Miss
        /\ completed.hit >= 1

\* the Get calls that have counted themselves and not returned yet
InFlight(found) ==
    Cardinality({c \in Callers : cop[c].name = "Get" /\ cpc[c] = "runlock" /\ cret[c].found = found})

\* C15: hits is the number of Get calls that have found their value and misses
\* the number that have not (the calls that have returned and those about to),
\* so hits + misses is the number of completed Get calls whenever none is about
\* to return; a step that changes a counter is the step of one Get and adds one
\* to one counter.
C15_GetCountsOnce ==
    /\ [](/\ hits = completed.hit + InFlight(TRUE)
          /\ misses = completed.miss + InFlight(FALSE))
    /\ [][(hits' # hits \/ misses' # misses) =>
             /\ \E c \in Callers : cop[c].name = "Get" /\ cpc[c] = "get" /\ cpc'[c] = "runlock"
             /\ hits' >= hits
             /\ misses' >= misses
             /\ hits' + misses' = hits + misses + 1]_vars

\* a Get that found its value is about to return while another caller's Get of
\* an expired entry has returned (nil, false)
C15_Witness ==
    \E c, d \in Callers :
        /\ cop[c].name = "Get" /\ cpc[c] = "runlock" /\ cret[c].found
        /\ cop[d].name = "Get" /\ cpc[d] = "done" /\ ~cret[d].found
        /\ entries[cop[d].key].present
        /\ hits = 1 /\ misses = 1

\* caller c's Stats has its result
StatsDone(c) == cop[c].name = "Stats" /\ cpc[c] \in {"runlock", "done"}

\* C16: Stats reports total = hits + misses and hitRate = 100 * hits / total,
\* 0 when total is 0; with hits 3 and misses 1, total is 4 and hitRate is 75.
C16_StatsHitRate ==
    \A c \in Callers :
        StatsDone(c) =>
            LET st == cret[c]
            IN /\ st.total = st.hits + st.misses
               /\ st.hitRate.den > 0
               /\ IF st.total = 0 THEN st.hitRate.num = 0
                  ELSE st.hitRate.num * st.total = 100 * st.hits * st.hitRate.den
               /\ (st.hits = 3 /\ st.misses = 1) =>
                     (st.total = 4 /\ st.hitRate = [num |-> 75, den |-> 1])

\* Stats has returned after exactly 3 hits and 1 miss
C16_Witness ==
    \E c \in Callers :
        /\ StatsDone(c)
        /\ completed = [hit |-> 3, miss |-> 1]
        /\ cret[c].hits = 3
        /\ cret[c].misses = 1

\* C17: the step of Set(k, v) leaves for k the entry with value v and expiry
\* (time of the Set) + ttl, whatever was there, and every other key's entry and
\* both counters as they were.
C17_SetOverwrites ==
    [][\A c \in Callers :
          (cop[c].name = "Set" /\ cpc[c] = "lock" /\ cpc'[c] = "done") =>
              /\ entries'[cop[c].key] = [present |-> TRUE, Data |-> cop[c].data, ExpiresAt |-> now + TTL]
              /\ \A k \in CacheKeys \ {cop[c].key} : entries'[k] = entries[k]
              /\ hits' = hits
              /\ misses' = misses]_vars

\* a Set has replaced an entry that had not expired and held another value and
\* an earlier expiry
C17_Witness ==
    \E c \in Callers :
        /\ cop[c].name = "Set"
        /\ cpc[c] = "done"
        /\ observed[c].last.set
        /\ observed[c].last.val # cop[c].data
        /\ observed[c].last.at < observed[c].at
        /\ observed[c].at <= observed[c].last.at + TTL
        /\ removedBy[cop[c].key] = "none"
        /\ entries[cop[c].key] = [present |-> TRUE, Data |-> cop[c].data, ExpiresAt |-> observed[c].at + TTL]

\* C18: the step of Invalidate(keys...) removes the named keys and leaves every
\* other entry and both counters as they were; the step of InvalidateAll leaves
\* no entry and both counters as they were; a Get of a key that was not Set
\* since it was last invalidated returns (nil, false).
C18_InvalidateFrame ==
    /\ [][\A c \in Callers :
             /\ (cop[c].name = "Invalidate" /\ cpc[c] = "lock" /\ cpc'[c] = "done") =>
                   /\ \A k \in cop[c].keys : ~entries'[k].present
                   /\ \A k \in CacheKeys \ cop[c].keys : entries'[k] = entries[k]
                   /\ hits' = hits
                   /\ misses' = misses
             /\ (cop[c].name = "InvalidateAll" /\ cpc[c] = "lock" /\ cpc'[c] = "done") =>
                   /\ \A k \in CacheKeys : ~entries'[k].present
                   /\ hits' = hits
                   /\ misses' = misses]_vars
    /\ [](\A c \in Callers : (GetDone(c) /\ ~observed[c].last.set) => cret[c] = Miss)

\* a Get of a key whose entry Invalidate removed returns (nil, false) before the
\* entry would have expired, while the entry of another key is still there
C18_Witness ==
    \E c \in Callers :
        /\ GetDone(c)
        /\ removedBy[cop[c].key] = "Invalidate"
        /\ ~observed[c].last.set
        /\ cret[c] = Miss
        /\ \E k \in CacheKeys \ {cop[c].key} : entries[k].present /\ ~After(now, entries[k].ExpiresAt)

\* C19: a sweep removes only entries whose expiry has passed, and at every
\* moment a Get of any key returns and counts on the swept map what it does on
\* the map no sweep has touched.
C19_SweepNotNeeded ==
    /\ [][(cpc' = cpc /\ now' = now) =>
             \A k \in CacheKeys :
                 IF entries[k].present /\ now > entries[k].ExpiresAt
                 THEN ~entries'[k].present
                 ELSE entries'[k] = entries[k]]_vars
    /\ [](\A k \in CacheKeys :
             /\ GetReturns(entries[k], now) = GetReturns(unswept[k], now)
             /\ GetCounts(entries[k], now) = GetCounts(unswept[k], now))

\* a Get of a key whose entry a sweep has removed has returned (nil, false)
C19_Witness ==
    \E c \in Callers :
        /\ GetDone(c)
        /\ removedBy[cop[c].key] = "Sweep"
        /\ unswept[cop[c].key].present
        /\ ~entries[cop[c].key].present
        /\ cret[c] = Miss


\* the file was written in full from collections that are not both empty
LoadsData(in) == in.kind = "written" /\ (in.users # <<>> \/ in.tasks # <<>>)

\* C11: Initialize returns a Store holding the three sample users (identifiers
\* 1..3) and the three sample tasks (identifiers 1..3) when the file is absent,
\* cannot be read or parsed, or holds no user and no task, and a Store holding
\* exactly the users and tasks the file was written from otherwise; LoadData
\* returns empty data and no error for an absent file.
C11_InitializeSeedsOrLoads ==
    /\ (bootPc = "done" /\ LoadsData(bootInput)) =>
          bootStore = [users |-> bootInput.users, tasks |-> bootInput.tasks]
    /\ (bootPc = "done" /\ ~LoadsData(bootInput)) =>
          /\ Len(bootStore.users) = 3
          /\ Len(bootStore.tasks) = 3
          /\ \A i \in 1..3 : bootStore.users[i].ID = i /\ bootStore.tasks[i].ID = i
          /\ bootStore = defaultStore
    /\ (bootPc \in {"decide", "done"} /\ bootInput.kind = "absent") =>
          bootData = [err |-> FALSE, users |-> <<>>, tasks |-> <<>>]
    /\ (bootPc \in {"decide", "done"} /\ bootInput.kind \in {"cut", "unreadable"}) => bootData.err

\* Initialize has returned the loaded data of a file that holds tasks and no
\* user
C11_Witness ==
    /\ bootPc = "done"
    /\ bootInput.kind = "written"
    /\ bootInput.users = <<>>
    /\ Len(bootInput.tasks) = 2
    /\ bootStore = [users |-> <<>>, tasks |-> bootInput.tasks]

\* the Store's write method called for the request of caller c has returned
WriteReturned(c) == op[c].name = WriteOf(hreq[c]).name /\ StoreReturned(c)

\* the handler of caller c is between the return of the Store's write and the
\* writing of the response
BeforeResponse(c) ==
    /\ WriteReturned(c)
    /\ Wrote(c)
    /\ \A i \in 1..Len(events[c]) : events[c][i] # "response"

\* the request of caller c was a write and its response has been written
WriteResponded(c) ==
    /\ hpc[c] = "idle"
    /\ hreq[c] \in WriteRequests
    /\ events[c] # <<>>
    /\ events[c][Len(events[c])] = "response"

\* C20: in a successful createUser the first Invalidate leaves no entry under
\* the users-list key and the second none under the stats key; in a successful
\* createTask or updateTask the InvalidateAll leaves no entry at all; each of
\* these steps is taken after the Store's write has returned and before the
\* response is written, and no response to a write is written without them.
C20_InvalidateAfterWrite ==
    /\ [][\A c \in Callers :
             (hreq[c] \in WriteRequests /\ cpc[c] = "lock" /\ cpc'[c] = "done") =>
                 /\ BeforeResponse(c)
                 /\ (hreq[c].name = "createUser" /\ hpc[c] = "invalidateUsers") =>
                        ~entries'["users"].present
                 /\ (hreq[c].name = "createUser" /\ hpc[c] = "invalidate") =>
                        ~entries'["stats"].present
                 /\ hreq[c].name \in {"createTask", "updateTask"} =>
                        \A k \in CacheKeys : ~entries'[k].present]_vars
    /\ [](\A c \in Callers :
             WriteResponded(c) => events[c] = <<"written", "invalidated", "response">>)

\* a createUser has been answered after its two Invalidate calls removed the
\* cached users list and the cached stats
C20_Witness ==
    \E c \in Callers :
        /\ WriteResponded(c)
        /\ hreq[c].name = "createUser"
        /\ removedBy["users"] = "Invalidate"
        /\ removedBy["stats"] = "Invalidate"
        /\ \E i \in 1..Len(users) : users[i].Email = Str(hreq[c].email) /\ users[i].ID = 3

\* caller c takes the step in which its read method `name` reads and returns
Reads(c, name) == op[c].name = name /\ pc[c] = "rlock" /\ pc'[c] = "done"

\* the tasks of ts, in their order, that pass both filters
Filtered(ts, status, userID) ==
    LET Passes(t) ==
            /\ status # "" => t.Status = status
            /\ userID # <<>> => (Atoi(userID).ok /\ t.UserID = Atoi(userID).val)
    IN SelectSeq(ts, Passes)

\* C23: GetTasks(status, userID) returns, in their stored order, exactly the
\* tasks that pass both filters: an empty status passes every task and another
\* one the tasks of that status; an empty userID passes every task, one that
\* parses as an integer the tasks of that user, and any other one no task.
C23_GetTasksFilters ==
    [][\A c \in Callers :
          Reads(c, "GetTasks") =>
              ret'[c].GetTasks = Filtered(tasks, op[c].status, op[c].userID)]_vars

\* GetTasks("pending", "1") has left out a task of user 1 that is not pending
\* and returned another one
C23_Witness ==
    \E c \in Callers :
        /\ pc[c] = "done"
        /\ op[c].name = "GetTasks"
        /\ op[c].status = "pending"
        /\ op[c].userID = <<"1">>
        /\ Len(ret[c].GetTasks) = 1
        /\ ret[c].GetTasks = Filtered(tasks, "pending", <<"1">>)
        /\ \E i \in 1..Len(tasks) : tasks[i].UserID = 1 /\ tasks[i].Status # "pending"

\* the number of the tasks of ts whose status is st
NumWithStatus(ts, st) == Len(SelectSeq(ts, LAMBDA t : t.Status = st))

\* C24: GetStats returns the number of users, the number of tasks and the
\* numbers of pending, in-progress and completed tasks of the collections as
\* they are when it reads them.
C24_GetStatsCurrent ==
    [][\A c \in Callers :
          Reads(c, "GetStats") =>
              /\ ret'[c].GetStats.users.total = Len(users)
              /\ ret'[c].GetStats.tasks.total = Len(tasks)
              /\ ret'[c].GetStats.tasks.pending = NumWithStatus(tasks, "pending")
              /\ ret'[c].GetStats.tasks.inProgress = NumWithStatus(tasks, "in-progress")
              /\ ret'[c].GetStats.tasks.completed = NumWithStatus(tasks, "completed")]_vars

\* GetStats has returned the counts of a Store that a creation and an update
\* have changed since the start
C24_Witness ==
    \E c \in Callers :
        /\ pc[c] = "done"
        /\ op[c].name = "GetStats"
        /\ ret[c].GetStats = GetStats(users, tasks)
        /\ Len(users) > Len(init0.users)
        /\ ret[c].GetStats.tasks.completed > NumWithStatus(init0.tasks, "completed")
        /\ ret[c].GetStats.tasks.pending < NumWithStatus(init0.tasks, "pending")

\* a step of caller c inside a write method, the lock held
WriterStep(c) == op[c].name \in WriteOps /\ mu.writer = c /\ pc'[c] # pc[c]

\* C29: every step leaves the users as they are or appends one user, and leaves
\* the tasks in their places with their identifiers or appends one task; only a
\* step of CreateUser, CreateTask or UpdateTask changes a collection, so the
\* read methods and Persist leave both unchanged.
C29_AppendOnly ==
    [][/\ Len(users') \in {Len(users), Len(users) + 1}
       /\ SubSeq(users', 1, Len(users)) = users
       /\ Len(tasks') \in {Len(tasks), Len(tasks) + 1}
       /\ \A i \in 1..Len(tasks) : tasks'[i].ID = tasks[i].ID
       /\ users' # users => \E c \in Callers : WriterStep(c) /\ op[c].name = "CreateUser"
       /\ tasks' # tasks => \E c \in Callers : WriterStep(c) /\ op[c].name \in {"CreateTask", "UpdateTask"}]_vars

\* a user and a task were appended and an earlier task was updated in its place
C29_Witness ==
    /\ Len(users) = Len(init0.users) + 1
    /\ Len(tasks) = Len(init0.tasks) + 1
    /\ SubSeq(users, 1, Len(init0.users)) = init0.users
    /\ \E i \in 1..Len(init0.tasks) : tasks[i] # init0.tasks[i] /\ tasks[i].ID = init0.tasks[i].ID

\* the handler of caller c has answered its request
Finished(c) == hpc[c] = "idle" /\ events[c] # <<>>

\* C25: no two users of the Store have the same email, and a createUser whose
\* email is that of a user the Store held from the start is answered
\* EMAIL_EXISTS.
C25_EmailsUnique ==
    /\ \A i, j \in 1..Len(users) : i # j => users[i].Email # users[j].Email
    /\ \A c \in Callers :
          (/\ Finished(c)
           /\ hreq[c].name = "createUser"
           /\ SyntaxError(hreq[c]) = ""
           /\ ExistsByEmail(init0.users, Str(hreq[c].email))) => events[c] = <<"EMAIL_EXISTS">>

\* there is a user with the identifier id
UserExists(id) == \E j \in 1..Len(users) : users[j].ID = id

\* request r names the user id, and nothing else is wrong with it
NamesUser(r, id) ==
    \/ r = CreateTaskRequest(TitleT1, "pending", id, TRUE)
    \/ r = UpdateTaskRequest(1, TitleT2, "completed", id, TRUE)

\* C26: the owner of every task is a user of the Store, and a createTask or
\* updateTask that names a user the Store does not hold is answered
\* INVALID_USER_ID and does not reach the Store's write.
C26_OwnersExist ==
    /\ \A i \in 1..Len(tasks) : UserExists(tasks[i].UserID)
    /\ \A c \in Callers : \A id \in {9} :
          (NamesUser(hreq[c], id) /\ ~UserExists(id)) =>
              /\ hpc[c] \in {"idle", "validate", "validateUser"}
              /\ Finished(c) => events[c] = <<"INVALID_USER_ID">>

\* a createTask naming a user that does not exist was refused after a task was
\* created for one user and another task was given to a second user
C26_Witness ==
    \E c \in Callers :
        /\ Finished(c)
        /\ hreq[c] = CreateTaskRequest(TitleT1, "pending", 9, TRUE)
        /\ events[c] = <<"INVALID_USER_ID">>
        /\ Len(tasks) = Len(init0.tasks) + 1
        /\ tasks[1].UserID = 2

\* a Store method of caller c has returned the statistics
StatsReturned(c) == op[c].name = "GetStats" /\ pc[c] = "done"

\* C27: the status of every task is pending, in-progress or completed and its
\* title is not empty, and in every result of GetStats the three counts add up
\* to the total.
C27_StatusAndTitle ==
    /\ \A i \in 1..Len(tasks) :
          /\ tasks[i].Status \in {"pending", "in-progress", "completed"}
          /\ tasks[i].Title # ""
    /\ \A c \in Callers :
          StatsReturned(c) =>
              LET t == ret[c].GetStats.tasks
              IN t.pending + t.inProgress + t.completed = t.total

\* a createTask with the status "done" was refused, and the statistics read
\* after a task was created and another updated count three tasks
C27_Witness ==
    \E c, d \in Callers :
        /\ Finished(c)
        /\ hreq[c] = CreateTaskRequest(TitleT1, "done", 1, TRUE)
        /\ events[c] = <<"INVALID_STATUS">>
        /\ StatsReturned(d)
        /\ ret[d].GetStats.tasks.total = Len(init0.tasks) + 1

\* all characters of cs are white space
AllSpace(cs) == \A i \in 1..Len(cs) : cs[i] \in Space

\* the write request r has one of the defects a request is refused for: its
\* body does not decode, a required field is empty, the email is malformed or
\* was taken from the start, the status is not one of the three, the user or
\* the task it names is not in the Store
Defective(r) ==
    \/ ~r.decodes
    \/ /\ r.name = "createUser"
       /\ \/ AllSpace(r.uname) \/ AllSpace(r.email) \/ AllSpace(r.role)
          \/ ~Email(r.email)
          \/ ExistsByEmail(init0.users, Str(r.email))
    \/ /\ r.name = "createTask"
       /\ \/ AllSpace(r.title)
          \/ r.status \notin {"pending", "in-progress", "completed"}
          \/ ~UserExists(r.userID)
    \/ /\ r.name = "updateTask"
       /\ \/ FindByID(tasks, r.id) = 0
          \/ r.title.set /\ AllSpace(r.title.val)
          \/ r.status.set /\ r.status.val \notin {"pending", "in-progress", "completed"}
          \/ r.userID.set /\ ~UserExists(r.userID.val)

\* the step is one of caller c
Acts(c) == pc'[c] # pc[c] \/ cpc'[c] # cpc[c] \/ hpc'[c] # hpc[c] \/ events'[c] # events[c]

\* C28: no step of the handler of a defective write request changes the users,
\* the tasks or the entries of the Cache or starts a save, whatever valid
\* fields the request carries besides, and the request never reaches the
\* Store's write.
C28_RejectedChangesNothing ==
    /\ [][\A c \in Callers :
             LET r == IF hpc[c] = "idle" THEN hreq'[c] ELSE hreq[c]
             IN (Acts(c) /\ r \in WriteRequests /\ Defective(r)) =>
                    UNCHANGED <<users, tasks, entries, saves>>]_vars
    /\ [](\A c \in Callers :
             (hreq[c] \in WriteRequests /\ Defective(hreq[c])) =>
                 /\ hpc[c] \in {"idle", "validate", "validateUser"}
                 /\ Finished(c) => Len(events[c]) = 1 /\ events[c][1] \notin {"response", "cached"})

\* an updateTask with a good title and status that names a user who does not
\* exist was refused; the task is as it was and the cached users list is still
\* there
C28_Witness ==
    \E c \in Callers :
        /\ Finished(c)
        /\ hreq[c] = UpdateTaskRequest(1, TitleT2, "completed", 9, TRUE)
        /\ events[c] = <<"INVALID_USER_ID">>
        /\ tasks = init0.tasks
        /\ entries["users"].present
        /\ saves = <<>>

\* the cache has returned a hit to the handler of caller c
HitReturned(c) == cop[c].name = "Get" /\ cpc[c] = "done" /\ cret[c].found

\* C21: a response served from the cache was read from the Store no more than
\* ttl before the moment the cache returned it.
C21_StalenessWithinTTL ==
    \A c \in Callers : HitReturned(c) => observed[c].at - cret[c].Data.asOf <= TTL

\* C21, amended: a response served from the cache was stored in the cache no
\* more than ttl before the moment the cache returned it, and was read from the
\* Store before it was stored.
C21_AgeSinceSetWithinTTL ==
    \A c \in Callers :
        HitReturned(c) =>
            /\ observed[c].last.set
            /\ observed[c].last.val = cret[c].Data
            /\ observed[c].at - observed[c].last.at <= TTL
            /\ cret[c].Data.asOf <= observed[c].last.at

\* the cache has returned, ttl after it was stored, a response that was read
\* from the Store before that
C21_Witness ==
    \E c \in Callers :
        /\ HitReturned(c)
        /\ observed[c].at - observed[c].last.at = TTL
        /\ cret[c].Data.asOf < observed[c].last.at

\* the response resp of a cached read shows the effect of the write request r
Includes(resp, r) ==
    CASE "GetUsers" \in DOMAIN resp ->
            r.name = "createUser" =>
                \E i \in 1..Len(resp.GetUsers) : resp.GetUsers[i].Email = Str(r.email)
      [] "GetTasks" \in DOMAIN resp ->
            /\ r.name = "createTask" => Len(resp.GetTasks) > Len(init0.tasks)
            /\ r.name = "updateTask" =>
                  \E i \in 1..Len(resp.GetTasks) :
                      /\ resp.GetTasks[i].ID = r.id
                      /\ resp.GetTasks[i].Title = Str(r.title.val)
      [] "GetStats" \in DOMAIN resp ->
            /\ r.name = "createUser" => resp.GetStats.users.total > Len(init0.users)
            /\ r.name = "createTask" => resp.GetStats.tasks.total > Len(init0.tasks)
            /\ r.name = "updateTask" => resp.GetStats.tasks.completed > 0

\* the response the handler of caller c has written to a cached read
Served(c) == IF events[c] = <<"cached">> THEN cret[c].Data.response ELSE ret[c]

\* C22: the response to a listUsers, listTasks or handleStats request shows the
\* effect of every write request that was answered before it arrived.
C22_ReadYourWrites ==
    \A c \in Callers :
        (Finished(c) /\ hreq[c].name \in {"listUsers", "listTasks", "handleStats"}) =>
            \A r \in hreq[c].after : Includes(Served(c), r)

\* the number of Allow calls for ip that returned true at a time in (t - window, t]
GrantedIn(ip, t) == Len(SelectSeq(granted[ip], LAMBDA at : at > t - Window /\ at <= t))

\* C30: for every IP and every instant t at most limit Allow calls for that IP
\* returned true at a time in (t - window, t]; an Allow for one IP leaves what
\* the limiter keeps for the other IPs as it is, and its result is decided by
\* the calls granted to its own IP alone.
C30_RateLimit ==
    /\ [](\A ip \in IPs : \A t \in 0..(MaxTime + Window) : GrantedIn(ip, t) <= Limit)
    /\ [][\A c \in Callers :
             (rlcall[c].pc = "body" /\ rlcall'[c].pc = "idle") =>
                 LET ip == rlcall[c].ip
                 IN /\ \A other \in IPs \ {ip} :
                          requests'[other] = requests[other] /\ granted'[other] = granted[other]
                    /\ answer'[c].allowed = (GrantedIn(ip, now) < Limit)
                    /\ answer'[c].allowed => answer'[c].remaining = Limit - GrantedIn(ip, now) - 1]_vars

\* an Allow for one IP was refused at the limit at the moment an Allow for
\* another IP was granted, and an Allow was granted again to an IP once its
\* earlier calls had left the window
C30_Witness ==
    /\ \E c, d \in Callers :
          /\ answer[c].ip = "ip1" /\ ~answer[c].allowed
          /\ answer[d].ip = "ip2" /\ answer[d].allowed
          /\ answer[c].at = answer[d].at
    /\ Len(granted["ip1"]) = Limit
    /\ GrantedIn("ip1", now) = 0

\* the header, its surrounding whitespace trimmed, is non-empty and is one of
\* the configured keys
KeyAccepted(h) == \E k \in ValidKeys : k # <<>> /\ k = TrimSpace(h)

\* C31: behind Auth a request reaches the wrapped handler if and only if its
\* X-API-Key header, trimmed, is non-empty and one of the configured keys; every
\* other request is answered UNAUTHORIZED, its handler does not run, and its
\* arrival changes nothing of the Store, the files, the Cache or the calls in
\* progress.
C31_AuthGuards ==
    /\ [](\A c \in Callers :
             header[c].set =>
                 IF KeyAccepted(header[c].val)
                 THEN events[c] # <<"UNAUTHORIZED">> /\ hreq[c].name # "none"
                 ELSE events[c] = <<"UNAUTHORIZED">> /\ hpc[c] = "idle")
    /\ [][\A c \in Callers :
             ( /\ requestsLeft' < requestsLeft
               /\ header'[c].set
               /\ ~KeyAccepted(header'[c].val)
               /\ \A d \in Callers \ {c} :
                      <<header[d], hreq[d], hpc[d], events[d]>>' =
                          <<header[d], hreq[d], hpc[d], events[d]>> ) =>
                 UNCHANGED <<storeVars, fileVars, saves, mu, pc, op, hreq, hpc,
                             entries, hits, misses, creaders, cpc, cop>>]_vars

\* a request whose header is a configured key with a leading space has been
\* refused, as has one without a key, while a request whose header is a key
\* surrounded by whitespace has been served down to its response
C31_Witness ==
    \E c, d \in Callers :
        /\ header[c] \in {Some(<<" ", "k", "2">>), Some(<<>>)}
        /\ events[c] = <<"UNAUTHORIZED">>
        /\ header[d] = Some(<<" ", "k", "1", "\t">>)
        /\ events[d] # <<>>
        /\ events[d][Len(events[d])] = "response"

\* what the Store returns for the query of the cached read r, read directly
DirectRead(r) ==
    CASE r.name = "listUsers" -> Result("GetUsers", users)
      [] r.name = "listTasks" -> Result("GetTasks", GetTasks(tasks, r.status, r.userID))
      [] r.name = "handleStats" -> Result("GetStats", GetStats(users, tasks))

Saving(g) == saves[g].pc \in {"open", "write", "rename", "unlock"}

\* C33: the snapshot a save writes is the users and the tasks of one and the
\* same Store state, the latest in the write order, and the Store takes no
\* write while a save is in progress; hence every successful save writes the
\* state that is the latest at the moment of its rename, and no later
\* successful save writes a state that preceded it.
C33_SavesNeverRegress ==
    /\ [](\A g \in Saves :
             Saving(g) =>
                 /\ saves[g].data = Marshal(committed.users, committed.tasks)
                 /\ users = committed.users
                 /\ tasks = committed.tasks)
    /\ [][(\E g \in Saves : Saving(g)) =>
             /\ mutCount' = mutCount
             /\ committed' = committed
             /\ users' = users
             /\ tasks' = tasks]_vars

\* after two writes and a save that succeeded, two saves are in progress at
\* once, one about to rename the temporary file the other is writing
C33_Witness ==
    /\ mutCount >= 2
    /\ \E g, h, k \in Saves :
          /\ saves[g].pc = "rename"
          /\ saves[h].pc = "write"
          /\ saves[k].pc = "done" /\ ~saves[k].err

\* caller c is inside a Store method, from its wait for s.mu to its return
InStore(c) == pc[c] \in {"lock", "rlock", "append", "spawn", "unlock"}

\* caller c is inside a Cache method, from its wait for c.mu to its return
InCache(c) == cpc[c] \in {"lock", "rlock", "get", "loadHits", "loadMisses", "runlock"}

\* every request received has been answered, every save started has ended and
\* nobody holds a lock
Quiescent ==
    /\ \A c \in Callers : hpc[c] = "idle"
    /\ \A g \in Saves : saves[g].pc = "done"
    /\ mu = [writer |-> 0, readers |-> {}]
    /\ creaders = {}

\* C34: no goroutine is inside a Store method and a Cache method at once, so
\* none holds (or waits for) s.mu and c.mu together; none waits for a lock it
\* holds; and under fair scheduling the server comes to rest (the requests
\* being finitely many): every request received is answered, every save
\* started ends, and the locks a sweep waits for are free.
C34_DeadlockFree ==
    /\ [](\A c \in Callers :
             /\ ~(InStore(c) /\ InCache(c))
             /\ mu.writer = c => InStore(c)
             /\ c \in creaders => InCache(c)
             /\ pc[c] \in {"lock", "rlock"} => mu.writer # c
             /\ cpc[c] \in {"lock", "rlock"} => c \notin creaders)
    /\ [](\A g \in Saves : saves[g].pc = "start" => g \notin mu.readers)
    /\ <>[]Quiescent

\* a handler waits for the write lock of the Store that a save holds for
\* reading, while the other handler, whose write started the save, waits for
\* the lock of the Cache
C34_Witness ==
    \E c, d \in Callers :
        /\ c # d
        /\ pc[c] = "lock"
        /\ mu.readers # {}
        /\ cpc[d] = "lock"

\* the statuses the Stores tried hold, as their characters
StatusTexts ==
    FilterStatuses \cup {<<"i", "n", "-", "p", "r", "o", "g", "r", "e", "s", "s">>,
                         <<"c", "o", "m", "p", "l", "e", "t", "e", "d">>}

\* no status of a task of the Store contains the character ':'
NoColon ==
    \A i \in 1..Len(tasks) :
        \E cs \in StatusTexts :
            /\ Str(cs) = tasks[i].Status
            /\ \A k \in 1..Len(cs) : cs[k] # ":"

\* GetTasks has returned to caller c
Queried(c) == pc[c] = "done" /\ op[c].name = "GetTasks"

\* C35: in a Store none of whose task statuses contains ':', two calls of
\* GetTasks whose filter pairs (status, userId) get the same key from TasksKey
\* return the same tasks.
C35_CollidingKeysAgree ==
    \A c, d \in Callers :
        (Queried(c) /\ Queried(d) /\ QueryKey(c) = QueryKey(d) /\ NoColon) =>
            ret[c] = ret[d]

\* two different filter pairs with one key, asked of a Store that holds a
\* pending task
C35_Witness ==
    \E c, d \in Callers :
        /\ Queried(c) /\ Queried(d)
        /\ op[c] # op[d]
        /\ op[c].status = "pending"
        /\ QueryKey(c) = QueryKey(d)
        /\ NoColon
        /\ \E i \in 1..Len(tasks) : tasks[i].Status = "pending"

\* the times of `times` that lie inside the window that ends at t
InWindow(times, t) == SelectSeq(times, LAMBDA at : t - at < Window)

\* C36: an Allow that allows records the time of its call and returns
\* remaining = limit - (the recorded times of its IP inside the window, this
\* one included), which is not negative; an Allow that denies returns
\* remaining 0 and records nothing: what the IP's record holds afterwards it
\* held before.
C36_RecordsOnlyAllowed ==
    [][\A c \in Callers :
          (rlcall[c].pc = "body" /\ rlcall'[c].pc = "idle") =>
              LET ip == rlcall[c].ip
                  before == requests[ip].times
                  after == requests'[ip].times
              IN IF answer'[c].allowed
                 THEN /\ after = Append(InWindow(before, now), now)
                      /\ answer'[c].remaining = Limit - Len(InWindow(after, now))
                      /\ answer'[c].remaining >= 0
                 ELSE /\ answer'[c].remaining = 0
                      /\ after = InWindow(before, now)
                      /\ Len(after) <= Len(before)]_vars

\* an Allow has been denied at a time when the record of its IP held the limit
\* of times inside the window, the oldest of them from an earlier tick, and
\* the record holds no more afterwards
C36_Witness ==
    \E c \in Callers :
        /\ answer[c].ip \in IPs
        /\ ~answer[c].allowed
        /\ answer[c].at = now
        /\ rlcall[c].pc = "idle"
        /\ Len(requests[answer[c].ip].times) = Limit
        /\ requests[answer[c].ip].times[1] < now

\* the times at which an Allow for ip was allowed, inside the window that ends
\* at t: what the record of ip holds inside that window at t
RecordedAt(ip, t) == SelectSeq(granted[ip], LAMBDA at : at <= t /\ t - at < Window)

\* the oldest of them
OldestAt(ip, t) ==
    LET S == {RecordedAt(ip, t)[i] : i \in 1..Len(RecordedAt(ip, t))}
    IN CHOOSE o \in S : \A x \in S : o <= x

\* the last Allow of caller d was denied, for ip, and the oldest time the record
\* of ip held then is at least one window old at time t
Released(d, ip, t) ==
    /\ answer[d].ip = ip
    /\ ~answer[d].allowed
    /\ RecordedAt(ip, answer[d].at) # <<>>
    /\ t >= OldestAt(ip, answer[d].at) + Window

\* an Allow for ip was allowed since the last Allow of caller d, a denied one,
\* was released
AllowedSince(d, ip) ==
    \E i \in 1..Len(granted[ip]) :
        granted[ip][i] >= OldestAt(ip, answer[d].at) + Window

\* caller c leaves Allow in this step
Allows(c) == rlcall[c].pc = "body" /\ rlcall'[c].pc = "idle"

\* C37: if an Allow for an IP was denied at time t, every Allow for that IP
\* made at or after (the oldest time the IP's record held inside the window at
\* t) + window is allowed.
C37_AlwaysReadmitted ==
    [][\A c, d \in Callers :
          (Allows(c) /\ Released(d, rlcall[c].ip, now)) => answer'[c].allowed]_vars

\* C37, amended: if an Allow for an IP was denied at time t, an Allow for that
\* IP made at or after (the oldest time the IP's record held inside the window
\* at t) + window is allowed unless an Allow for that IP was already allowed at
\* or after that time; so the first such call is allowed, whatever calls were
\* denied in between and whether or not the cleanup ran.
C37_FirstReadmitted ==
    [][\A c, d \in Callers :
          ( /\ Allows(c)
            /\ Released(d, rlcall[c].ip, now)
            /\ ~AllowedSince(d, rlcall[c].ip) ) => answer'[c].allowed]_vars

\* an IP that was denied at the limit, and denied again later, has been
\* allowed once the oldest of its recorded times was one window old
C37_Witness ==
    \E c, d \in Callers :
        /\ c # d
        /\ rlcall[c].pc = "idle"
        /\ answer[c].ip \in IPs
        /\ answer[c].allowed
        /\ answer[c].at = now
        /\ answer[d].ip = answer[c].ip
        /\ ~answer[d].allowed
        /\ answer[d].at > 0
        /\ Len(granted[answer[c].ip]) = Limit + 1
        /\ granted[answer[c].ip][1] + Window = now

\* caller c takes a step of the Cache method `name` it is in
StepsIn(c, name) == cop[c].name = name /\ cpc'[c] # cpc[c]

\* caller c's Set, Invalidate or InvalidateAll takes effect, on key k among others
Rewrites(c, k) ==
    /\ cpc[c] = "lock"
    /\ cpc'[c] = "done"
    /\ \/ cop[c].name = "Set" /\ cop[c].key = k
       \/ cop[c].name = "Invalidate" /\ k \in cop[c].keys
       \/ cop[c].name = "InvalidateAll"

\* the sweep removes the expired entry of key k
Sweeps(k) ==
    /\ cpc' = cpc
    /\ entries[k].present
    /\ After(now, entries[k].ExpiresAt)
    /\ ~entries'[k].present

\* C38: no step of a Get changes the entry map, also when the Get finds an
\* expired entry and reports a miss; the entry of a key changes only by a
\* sweep that finds it expired, an Invalidate of the key, an InvalidateAll or a
\* Set of the key; and the entry count of Stats is the number of keys in the
\* map, the expired ones that are still there included.
C38_GetLeavesEntries ==
    [][/\ \A c \in Callers :
             /\ StepsIn(c, "Get") => entries' = entries
             /\ (StepsIn(c, "Get") /\ cpc[c] = "get" /\ Expired(entries[cop[c].key], now)) =>
                    /\ ~cret'[c].found
                    /\ entries'[cop[c].key] = entries[cop[c].key]
             /\ (StepsIn(c, "Stats") /\ cpc[c] = "loadMisses") =>
                    cret'[c].entries = Cardinality({k \in CacheKeys : entries[k].present})
       /\ \A k \in CacheKeys :
             entries'[k] # entries[k] => (Sweeps(k) \/ \E c \in Callers : Rewrites(c, k))]_vars

\* a Get has found an expired entry and reported a miss, and a Stats that
\* follows has counted that entry, which no sweep has removed
C38_Witness ==
    \E c, d \in Callers :
        /\ cop[c].name = "Get"
        /\ cpc[c] = "done"
        /\ ~cret[c].found
        /\ Expired(entries[cop[c].key], observed[c].at)
        /\ cop[d].name = "Stats"
        /\ cpc[d] = "done"
        /\ cret[d].misses = 1
        /\ cret[d].entries = 1

\* the handler of caller c serves an update-task request
Updating(c) == hreq[c].name = "updateTask" /\ hpc[c] # "idle"

\* the handler of caller c writes its answer
Answers(c) == hpc[c] # "idle" /\ hpc'[c] = "idle"

\* the body of request r is one that updateTask would refuse
BadBody(r) ==
    \/ ~r.decodes
    \/ ~Status(r.status.val)
    \/ ~NonEmpty(r.title.val)

\* C39: updateTask checks the task's existence with GetTaskByID and updates it
\* with UpdateTask, two Store calls with other requests in between; the
\* UpdateTask it calls after the check and the validation have passed finds
\* the task and returns it, never nil, and the answer that follows is the 200
\* response with that task. An update-task request for an identifier the Store
\* has no task of is answered TASK_NOT_FOUND, whatever its body is, and no
\* other Store call is made for it.
C39_UpdateAfterCheck ==
    /\ [](\A c \in Callers :
             (Updating(c) /\ hpc[c] \in {"write", "invalidate", "respond"}) =>
                 /\ op[c].name = "UpdateTask"
                 /\ op[c].id = hreq[c].id
                 /\ pc[c] # "lock" => (loc[c] # 0 /\ tasks[loc[c]].ID = hreq[c].id)
                 /\ StoreReturned(c) => (ret[c] # Nil /\ ret[c].idx = loc[c]))
    /\ [][\A c \in Callers :
             /\ (Updating(c) /\ Answers(c) /\ hpc[c] \notin {"validate", "validateUser"}) =>
                    /\ hpc[c] = "respond"
                    /\ events'[c] = <<"written", "invalidated", "response">>
                    /\ enc[c].ID = hreq[c].id
             /\ (Updating(c) /\ FindByID(tasks, hreq[c].id) = 0 /\ hpc'[c] # hpc[c]) =>
                    /\ hpc[c] = "validate"
                    /\ op[c].name = "GetTaskByID"
                    /\ ret[c] = Nil
                    /\ events'[c] = <<"TASK_NOT_FOUND">>]_vars

\* one update-task request has passed the existence check and the validation
\* and is answered with the updated task, and one for a missing task whose
\* body would be refused is answered TASK_NOT_FOUND
C39_Witness ==
    \E c, d \in Callers :
        /\ hreq[c].name = "updateTask"
        /\ hpc[c] = "idle"
        /\ events[c] = <<"written", "invalidated", "response">>
        /\ Len(tasks) > Len(init0.tasks)
        /\ hreq[d].name = "updateTask"
        /\ hpc[d] = "idle"
        /\ BadBody(hreq[d])
        /\ events[d] = <<"TASK_NOT_FOUND">>

====
